---- MODULE Spec2Model ----
(***************************************************************************)
(* The scan assembler (DataAssembler) and the frame loop that drains it.   *)
(*                                                                         *)
(* Receiver threads hand every lidar chunk to DataAssembler::addChunk; the *)
(* frame thread calls maintenance, then retrieveCompleted, then feeds the  *)
(* returned scans to ElevationMap::integrateScan.  Times are milliseconds  *)
(* of the steady clock behind nowSeconds().                                *)
(*                                                                         *)
(* Spec takes each assembler call as one step (every call holds the        *)
(* assembler's mutex from its first line to its return); SpecConc runs the *)
(* same calls statement by statement with the mutex modelled.              *)
(***************************************************************************)
EXTENDS Integers, Sequences, FiniteSets, Bags, TLC

(* ------------------------------ bounds -------------------------------- *)

\* Number of addChunk calls in a run.
MaxChunks == 3
\* Number of clock ticks in a run, and the length of one tick.
MaxTicks == 3
TickMs == 100
\* Number of counted integrateScan calls in a run.
MaxScans == 3
\* ElevationMap::baseCellRes, metres (the program's default is 0.25).
BaseCellRes == 8
\* Number of points IntegrateGround integrates in a run, and how many of the
\* first of them may lie on or below the running mean instead of above it.
MaxGroundPoints == 72
MaxLevelPoints == 6
\* Number of datagrams the lidar socket receives in a run.
MaxDatagrams == 2

\* The ticks of TickMs the network manager's clock makes.
MaxNetTicks == 3

(* ------------------------- program constants -------------------------- *)

\* "t - it->second.firstArrivalTs > 0.2"
PartialTimeoutMs == 200
\* size_t maxPointsGlobal = 2'000'000
MaxPointsGlobal == 2000000
\* static constexpr size_t MAX_LIDAR_POINTS_PER_PACKET = 100
MAX_LIDAR_POINTS_PER_PACKET == 100
\* sizeof(WireLidarPacketHeader), packed: double + 3 * uint32_t
SizeofWireLidarPacketHeader == 20
\* sizeof(WireLidarPoint), packed: 3 * float
SizeofWireLidarPoint == 12

\* sizeof(WirePosePacket), packed: a double and six floats
SizeofWirePosePacket == 32

\* sizeof(WireVehicleTelem), packed: a double and a uint8_t
SizeofWireVehicleTelem == 9

\* NetworkConfig::PACKET_TIMEOUT_MS
PACKET_TIMEOUT_MS == 200

\* NetworkConfig::ROVER_OFFLINE_TIMEOUT_MS
ROVER_OFFLINE_TIMEOUT_MS == 5000

\* "bool chunkReceived[256]" and "chunkIndex >= 256"
MaxChunkIndex == 256

(* ------------------------------ inputs -------------------------------- *)

Rovers == {"r1", "r2"}
Timestamps == {1}

\* PartialKey{roverId, hdr.timestamp}
PartialKey(roverId, timestamp) == <<roverId, timestamp>>
Keys == {PartialKey(r, ts) : r \in Rovers, ts \in Timestamps}

\* The header fields a sender may put on the wire: totalChunks 0 is a
\* malformed header, and chunkIndex may reach or pass totalChunks.
ChunkIndexValues == {0, 1}
TotalChunksValues == {0, 1, 2}

\* Chunk i of a scan carries i + 1 points, so chunks of one scan differ in size.
LidarPacketHeader ==
    {[timestamp |-> ts, chunkIndex |-> i, totalChunks |-> T,
      pointsInThisChunk |-> i + 1] :
        ts \in Timestamps, i \in ChunkIndexValues, T \in TotalChunksValues}

\* The points of a chunk.  The assembler never looks inside a LidarPoint, so
\* a point is named by the chunk that carried it and its position in it.
PointsOf(hdr) ==
    [j \in 1..hdr.pointsInThisChunk |->
        [chunk |-> hdr.chunkIndex, of |-> hdr.totalChunks, n |-> j]]

\* One receiver thread per rover (each runs the lidar callback) and the frame
\* thread.
FrameThread == "frame"
Threads == Rovers \cup {FrameThread}
NoOwner == "none"
NoLocals == [t |-> 0]

(* ------------------------------- state -------------------------------- *)

VARIABLES
    partials,           \* DataAssembler::partials, key -> PartialScan
    completed,          \* DataAssembler::completed (deque)
    globalTerrain,      \* DataAssembler::globalTerrain
    storeGlobalPoints,  \* DataAssembler::storeGlobalPoints
    clock,              \* steady clock read by nowSeconds(), in ms
    framePc,            \* where the frame thread is in its loop
    integrated,         \* scans handed to ElevationMap::integrateScan, in order
    delivered,          \* history: per key, the addChunk calls made, and the
                        \* maintenance calls made when its partial had timed out
    emitted,            \* history: every scan pushed on completed, in order
    calls,              \* history: the number of addChunk calls made
    mutex,              \* DataAssembler::mutex: the thread that holds it
    pc,                 \* per thread: its place inside an assembler call
    local,              \* per thread: the locals of the call it is in
    atLock,             \* history: partials and completed when mutex was last taken
    tiles,              \* ElevationMap::tiles, TileKey -> Tile
    updates,            \* the vector the last consumeDirtyTiles* call returned
    nScans,             \* history: the number of integrateScan calls made
    lastExport,         \* history: per tile, the means of its valid leaves when
                        \* it was last exported
    disagreeLog,        \* history: per cell, the timestamps of the disagree-zone
                        \* points integrated since it was last (re)initialised
    groundLog,          \* history: the sum and the number of the heights that
                        \* IntegrateGround has integrated
    disagreeWindow,     \* ElevationMap::disagreeWindow, in ms
    lidarPackets,       \* history: the datagrams lidarReceiveThread received,
                        \* each with the packet it handed to processLidarPacket
    roverState,         \* RoverNetworkState of one rover (*m_roverStates[0])
    m_totalPointsReceived, \* NetworkManager::m_totalPointsReceived
    netClock,           \* high_resolution_clock::now(), in ms
    outScans,           \* the vector the last getCompletedLidarScans call filled
    dataMutex,          \* RoverNetworkState::dataMutex: the thread that holds it
    netPc,              \* per thread of the network manager: the call it is in
                        \* and its place inside the call
    netHist             \* history: the datagrams received, the last of them,
                        \* per timestamp how often its assembly became
                        \* complete before expiring, and every scan returned

\* What only the statement-by-statement specification SpecConc moves.
concVars == <<mutex, pc, local, atLock>>

\* The state of the scan assembler and of the frame loop around it.
asmVars == <<partials, completed, globalTerrain, storeGlobalPoints, clock,
             framePc, integrated, delivered, emitted, calls, concVars>>

\* The state of the elevation map.
elevVars == <<tiles, updates, nScans, lastExport, disagreeLog, groundLog,
              disagreeWindow>>

\* The state of the network receiver.
roverVars == <<roverState, m_totalPointsReceived, netClock, outScans,
               dataMutex, netPc, netHist>>

netVars == <<lidarPackets, roverVars>>

vars == <<asmVars, elevVars, netVars>>

\* PartialScan as default-constructed by partials[key]
DefaultPartial ==
    [firstArrivalTs |-> 0, totalChunks |-> 0, received |-> <<>>, points |-> <<>>]

\* auto& partial = partials[key];
Lookup(ps, key) == IF key \in DOMAIN ps THEN ps[key] ELSE DefaultPartial

\* if (partial.received.empty()) { firstArrivalTs, totalChunks, received.assign }
InitPartial(p, now, hdr) ==
    IF Len(p.received) = 0
    THEN [firstArrivalTs |-> now,
          totalChunks |-> hdr.totalChunks,
          received |-> [i \in 1..hdr.totalChunks |-> FALSE],
          points |-> p.points]
    ELSE p

\* AcceptChunk with the points inserted at the front of the list.
AcceptChunkPrepend(p, hdr, pts) ==
    IF hdr.chunkIndex < Len(p.received) /\ ~p.received[hdr.chunkIndex + 1]
    THEN [p EXCEPT !.received[hdr.chunkIndex + 1] = TRUE,
                   !.points = pts \o @]
    ELSE p

\* AcceptChunk without the test of the received bit.
AcceptChunkNoDupCheck(p, hdr, pts) ==
    IF hdr.chunkIndex < Len(p.received)
    THEN [p EXCEPT !.received[hdr.chunkIndex + 1] = TRUE,
                   !.points = @ \o pts]
    ELSE p

\* if (chunkIndex < received.size() && !received[chunkIndex]) { set; insert }
AcceptChunk(p, hdr, pts) ==
    IF hdr.chunkIndex < Len(p.received) /\ ~p.received[hdr.chunkIndex + 1]
    THEN [p EXCEPT !.received[hdr.chunkIndex + 1] = TRUE,
                   !.points = @ \o pts]
    ELSE p

\* AllReceived with the loop's test inverted: one received chunk is enough.
AllReceivedAny(p) == \E i \in 1..Len(p.received) : p.received[i]

\* bool all = true; for (bool r : partial.received) if (!r) all = false;
AllReceived(p) == \A i \in 1..Len(p.received) : p.received[i]

\* CompletedScan scan; scan.points = std::move(partial.points);
CompletedScan(roverId, timestamp, points) ==
    [roverId |-> roverId, timestamp |-> timestamp, points |-> points]

\* partials.erase(key)
Erase(ps, key) == [k \in (DOMAIN ps) \ {key} |-> ps[k]]

\* partials with key bound to p (operator[] inserts the key if absent)
Store(ps, key, p) == [k \in (DOMAIN ps) \cup {key} |-> IF k = key THEN p ELSE ps[k]]

\* The partial table and the completed queue after addChunk(roverId, hdr, pts)
\* called at time now.
AddChunkResult(ps, done, now, roverId, hdr, pts) ==
    LET key == PartialKey(roverId, hdr.timestamp)
        p   == AcceptChunk(InitPartial(Lookup(ps, key), now, hdr), hdr, pts)
    IN  IF AllReceived(p)
        THEN [partials  |-> Erase(ps, key),
              completed |-> Append(done, CompletedScan(roverId, hdr.timestamp, p.points))]
        ELSE [partials  |-> Store(ps, key, p),
              completed |-> done]

\* if (t - it->second.firstArrivalTs > 0.2) erase
Stale(p, t) == t - p.firstArrivalTs > PartialTimeoutMs

\* DropStale that resets a stale partial's points and first arrival and keeps
\* its received bits.
DropStaleKeepsReceived(ps, t) ==
    [k \in DOMAIN ps |->
        IF Stale(ps[k], t) THEN [ps[k] EXCEPT !.points = <<>>, !.firstArrivalTs = t]
        ELSE ps[k]]

\* DropStale that restarts the timeout of a stale partial and keeps it.
DropStaleRestarts(ps, t) ==
    [k \in DOMAIN ps |->
        IF Stale(ps[k], t) THEN [ps[k] EXCEPT !.firstArrivalTs = t] ELSE ps[k]]

\* for (it = partials.begin(); ...) drop the stale partials
DropStale(ps, t) == [k \in {k \in DOMAIN ps : ~Stale(ps[k], t)} |-> ps[k]]

RECURSIVE Flatten(_)
\* the points of a list of scans, concatenated
Flatten(ss) == IF ss = <<>> THEN <<>> ELSE Head(ss).points \o Flatten(Tail(ss))

\* globalTerrain.erase(begin, begin + drop) when over maxPointsGlobal
CapGlobal(g) ==
    IF MaxPointsGlobal > 0 /\ Len(g) > MaxPointsGlobal
    THEN SubSeq(g, Len(g) - MaxPointsGlobal + 1, Len(g))
    ELSE g

\* if (storeGlobalPoints) { mirror completed into globalTerrain; cap }
MirrorGlobal(g, store, done) ==
    IF store THEN CapGlobal(g \o Flatten(done)) ELSE g

\* struct LidarAssemblyState, default-constructed
LidarAssemblyState ==
    [timestamp |-> 0, totalChunks |-> 0, receivedChunks |-> 0,
     chunkReceived |-> {}, points |-> <<>>, firstChunkTime |-> 0]

\* RoverNetworkState(id): latestPose{}, latestTelem{}, stats{}, online(false),
\* lastPacketTime(now()), an empty lidarAssembly
RoverNetworkState ==
    [latestPose |-> [timestamp |-> 0, posX |-> 0],
     latestTelem |-> [timestamp |-> 0, buttonStates |-> 0],
     lidarAssembly |-> << >>,
     stats |-> [lastPacketTime |-> 0, totalPackets |-> 0],
     online |-> FALSE,
     lastPacketTime |-> 0]

\* The threads of the network manager for one rover: the three receive
\* threads that initialize() starts and the main thread.
NetThreads == {"pose", "lidar", "telem", "main"}

\* A thread outside every call.
NetIdle == [call |-> "none", at |-> "idle"]

\* "float disagreeWindow = 1.0f" and the constructor's setParameters(..., 1.0f), in ms
DisagreeWindowDefault == 1000


(* ------------------------------ actions ------------------------------- *)

Init ==
    /\ partials = << >>
    /\ completed = <<>>
    /\ globalTerrain = <<>>
    /\ storeGlobalPoints = FALSE
    /\ clock = 0
    /\ framePc = "maintenance"
    /\ integrated = <<>>
    /\ delivered = [k \in Keys |-> <<>>]
    /\ emitted = <<>>
    /\ calls = 0
    /\ mutex = NoOwner
    /\ pc = [t \in Threads |-> "idle"]
    /\ local = [t \in Threads |-> NoLocals]
    /\ atLock = [partials |-> << >>, completed |-> <<>>]
    /\ tiles = << >>
    /\ updates = <<>>
    /\ nScans = 0
    /\ lastExport = << >>
    /\ disagreeLog = << >>
    /\ groundLog = [sum |-> 0, count |-> 0]
    /\ disagreeWindow = DisagreeWindowDefault
    /\ lidarPackets = <<>>
    /\ roverState = RoverNetworkState
    /\ m_totalPointsReceived = 0
    /\ netClock = 0
    /\ outScans = <<>>
    /\ dataMutex = NoOwner
    /\ netPc = [t \in NetThreads |-> NetIdle]
    /\ netHist = [received |-> 0, lastDatagram |-> [kind |-> "none"],
                  completions |-> << >>, returned |-> <<>>]

\* The steady clock advances.
Tick ==
    /\ clock + TickMs <= MaxTicks * TickMs
    /\ clock' = clock + TickMs
    /\ UNCHANGED <<netVars, elevVars, partials, completed, globalTerrain, storeGlobalPoints,
                   framePc, integrated, delivered, emitted, calls, concVars>>

\* DataAssembler::addChunk, called from a receiver thread's lidar callback.
AddChunk(roverId, hdr) ==
    LET key == PartialKey(roverId, hdr.timestamp)
        res == AddChunkResult(partials, completed, clock, roverId, hdr, PointsOf(hdr))
    IN  /\ calls < MaxChunks
        /\ calls' = calls + 1
        /\ partials' = res.partials
        /\ completed' = res.completed
        /\ delivered' = [delivered EXCEPT ![key] =
                            Append(@, [op |-> "chunk", hdr |-> hdr])]
        /\ emitted' = emitted \o SubSeq(res.completed, Len(completed) + 1, Len(res.completed))
        /\ UNCHANGED <<netVars, elevVars, globalTerrain, storeGlobalPoints, clock, framePc, integrated,
                       concVars>>

\* DataAssembler::maintenance(nowSec); the parameter is not read.
Maintenance(nowSec) ==
    /\ partials' = DropStale(partials, clock)
    /\ globalTerrain' = MirrorGlobal(globalTerrain, storeGlobalPoints, completed)
    /\ delivered' = [k \in Keys |->
                        IF k \in DOMAIN partials /\ clock - partials[k].firstArrivalTs > PartialTimeoutMs
                        THEN Append(delivered[k], [op |-> "evict"])
                        ELSE delivered[k]]
    /\ UNCHANGED <<netVars, elevVars, completed, storeGlobalPoints, clock, emitted, calls>>

\* retrieveCompleted without completed.clear().
RetrieveCompletedNoClear(done) == [out |-> done, completed |-> done]

\* DataAssembler::retrieveCompleted: the returned vector and the queue left.
RetrieveCompletedResult(done) == [out |-> done, completed |-> <<>>]

\* The time value the frame loop passes: assembler.maintenance(0.0)
FrameNowSec == 0

\* Frame loop: assembler.maintenance(0.0);
FrameMaintenance ==
    /\ framePc = "maintenance"
    /\ Maintenance(FrameNowSec)
    /\ framePc' = "retrieve"
    /\ UNCHANGED <<netVars, elevVars, integrated, concVars>>

\* Frame loop: auto scans = assembler.retrieveCompleted();
\*             for (const auto& sc : scans) elevMap.integrateScan(sc.points, sc.timestamp);
\* The loop touches only the frame thread's own data, so it is one step with
\* the call that fills scans.
FrameRetrieve ==
    LET res == RetrieveCompletedResult(completed)
    IN  /\ framePc = "retrieve"
        /\ completed' = res.completed
        /\ integrated' = integrated \o res.out
        /\ framePc' = "maintenance"
        /\ UNCHANGED <<netVars, elevVars, partials, globalTerrain, storeGlobalPoints, clock,
                       delivered, emitted, calls, concVars>>

Next ==
    \/ Tick
    \/ \E r \in Rovers, hdr \in LidarPacketHeader : AddChunk(r, hdr)
    \/ FrameMaintenance
    \/ FrameRetrieve

Spec == Init /\ [][Next]_vars

\* The frame loop never stops (while (!glfwWindowShouldClose(window))) and the
\* steady clock never stands still.
SpecLive ==
    /\ Init /\ [][Next]_vars
    /\ WF_vars(Tick)
    /\ WF_vars(FrameMaintenance)
    /\ WF_vars(FrameRetrieve)

(* ------------- the same calls, statement by statement ----------------- *)

\* SpecConc runs the three assembler calls one statement at a time, each
\* thread at its own pace, with the mutex that each call takes on entry.  It
\* keeps no per-key history (delivered stays empty).

\* std::lock_guard that does not wait for the mutex.
LockGuardNoWait(t) ==
    /\ mutex' = t
    /\ atLock' = [partials |-> partials, completed |-> completed]

\* std::lock_guard<std::mutex> lk(mutex): waits until the mutex is free.
LockGuard(t) ==
    /\ mutex = NoOwner
    /\ mutex' = t
    /\ atLock' = [partials |-> partials, completed |-> completed]

\* The lock_guard goes out of scope.
Unlock(t) == mutex' = NoOwner

\* addChunk entered by rover r's receiver thread: line 15.
CAddChunkLock(r, hdr) ==
    /\ pc[r] = "idle"
    /\ calls < MaxChunks
    /\ calls' = calls + 1
    /\ LockGuard(r)
    /\ pc' = [pc EXCEPT ![r] = "init"]
    /\ local' = [local EXCEPT ![r] = [hdr |-> hdr, t |-> 0]]
    /\ UNCHANGED <<netVars, elevVars, partials, completed, globalTerrain, storeGlobalPoints, clock,
                   framePc, integrated, delivered, emitted>>

\* lines 16-23: partials[key], initialised if its received is empty.
CAddChunkInit(r) ==
    LET hdr == local[r].hdr
        key == PartialKey(r, hdr.timestamp)
    IN  /\ pc[r] = "init"
        /\ partials' = Store(partials, key, InitPartial(Lookup(partials, key), clock, hdr))
        /\ local' = [local EXCEPT ![r].t = clock]
        /\ pc' = [pc EXCEPT ![r] = "bit"]
        /\ UNCHANGED <<netVars, elevVars, completed, globalTerrain, storeGlobalPoints, clock, framePc,
                       integrated, delivered, emitted, calls, mutex, atLock>>

\* lines 24-25: the test and partial.received[chunkIndex] = true.
CAddChunkBit(r) ==
    LET hdr == local[r].hdr
        key == PartialKey(r, hdr.timestamp)
        p   == Lookup(partials, key)
        q   == AcceptChunk(p, hdr, <<>>)
    IN  /\ pc[r] = "bit"
        /\ partials' = Store(partials, key, q)
        /\ pc' = [pc EXCEPT ![r] = IF q # p THEN "points" ELSE "check"]
        /\ UNCHANGED <<netVars, elevVars, completed, globalTerrain, storeGlobalPoints, clock, framePc,
                       integrated, delivered, emitted, calls, mutex, local, atLock>>

\* line 26: partial.points.insert(end, pts, pts + count).
CAddChunkPoints(r) ==
    LET hdr == local[r].hdr
        key == PartialKey(r, hdr.timestamp)
        p   == Lookup(partials, key)
    IN  /\ pc[r] = "points"
        /\ partials' = Store(partials, key, [p EXCEPT !.points = @ \o PointsOf(hdr)])
        /\ pc' = [pc EXCEPT ![r] = "check"]
        /\ UNCHANGED <<netVars, elevVars, completed, globalTerrain, storeGlobalPoints, clock, framePc,
                       integrated, delivered, emitted, calls, mutex, local, atLock>>

\* lines 29-32: the completion loop; not all: the call returns (line 41).
CAddChunkCheck(r) ==
    LET hdr == local[r].hdr
        key == PartialKey(r, hdr.timestamp)
    IN  /\ pc[r] = "check"
        /\ pc' = [pc EXCEPT ![r] =
                    IF AllReceived(Lookup(partials, key)) THEN "erase" ELSE "unlock"]
        /\ UNCHANGED <<netVars, elevVars, partials, completed, globalTerrain, storeGlobalPoints, clock,
                       framePc, integrated, delivered, emitted, calls, mutex, local, atLock>>

\* lines 34-38: the points move into scan and the key is erased.
CAddChunkErase(r) ==
    LET hdr == local[r].hdr
        key == PartialKey(r, hdr.timestamp)
    IN  /\ pc[r] = "erase"
        /\ local' = [local EXCEPT ![r] =
                        [hdr |-> hdr, t |-> local[r].t,
                         scan |-> CompletedScan(r, hdr.timestamp, Lookup(partials, key).points)]]
        /\ partials' = Erase(partials, key)
        /\ pc' = [pc EXCEPT ![r] = "push"]
        /\ UNCHANGED <<netVars, elevVars, completed, globalTerrain, storeGlobalPoints, clock, framePc,
                       integrated, delivered, emitted, calls, mutex, atLock>>

\* line 39: completed.push_back(std::move(scan)).
CAddChunkPush(r) ==
    /\ pc[r] = "push"
    /\ completed' = Append(completed, local[r].scan)
    /\ emitted' = Append(emitted, local[r].scan)
    /\ pc' = [pc EXCEPT ![r] = "unlock"]
    /\ UNCHANGED <<netVars, elevVars, partials, globalTerrain, storeGlobalPoints, clock, framePc,
                   integrated, delivered, mutex, local, atLock, calls>>

\* line 41: addChunk returns.
CAddChunkReturn(r) ==
    /\ pc[r] = "unlock"
    /\ Unlock(r)
    /\ pc' = [pc EXCEPT ![r] = "idle"]
    /\ local' = [local EXCEPT ![r] = NoLocals]
    /\ UNCHANGED <<netVars, elevVars, partials, completed, globalTerrain, storeGlobalPoints, clock,
                   framePc, integrated, delivered, emitted, calls, atLock>>

\* Frame loop: assembler.maintenance(0.0) entered: line 52.
CMaintenanceLock ==
    /\ framePc = "maintenance"
    /\ pc[FrameThread] = "idle"
    /\ LockGuard(FrameThread)
    /\ pc' = [pc EXCEPT ![FrameThread] = "drop"]
    /\ UNCHANGED <<netVars, elevVars, partials, completed, globalTerrain, storeGlobalPoints, clock,
                   framePc, integrated, delivered, emitted, calls, local>>

\* lines 54-61: t = nowSeconds() and the loop that erases the stale partials.
CMaintenanceDrop ==
    /\ pc[FrameThread] = "drop"
    /\ local' = [local EXCEPT ![FrameThread] = [t |-> clock]]
    /\ partials' = DropStale(partials, clock)
    /\ pc' = [pc EXCEPT ![FrameThread] = "mirror"]
    /\ UNCHANGED <<netVars, elevVars, completed, globalTerrain, storeGlobalPoints, clock, framePc,
                   integrated, delivered, emitted, calls, mutex, atLock>>

\* lines 64-74: the optional mirror into globalTerrain.
CMaintenanceMirror ==
    /\ pc[FrameThread] = "mirror"
    /\ globalTerrain' = MirrorGlobal(globalTerrain, storeGlobalPoints, completed)
    /\ pc' = [pc EXCEPT ![FrameThread] = "unlock"]
    /\ UNCHANGED <<netVars, elevVars, partials, completed, storeGlobalPoints, clock, framePc,
                   integrated, delivered, emitted, calls, mutex, local, atLock>>

\* line 75: maintenance returns.
CMaintenanceReturn ==
    /\ framePc = "maintenance"
    /\ pc[FrameThread] = "unlock"
    /\ Unlock(FrameThread)
    /\ pc' = [pc EXCEPT ![FrameThread] = "idle"]
    /\ local' = [local EXCEPT ![FrameThread] = NoLocals]
    /\ framePc' = "retrieve"
    /\ UNCHANGED <<netVars, elevVars, partials, completed, globalTerrain, storeGlobalPoints, clock,
                   integrated, delivered, emitted, calls, atLock>>

\* Frame loop: assembler.retrieveCompleted() entered: line 44.
CRetrieveLock ==
    /\ framePc = "retrieve"
    /\ pc[FrameThread] = "idle"
    /\ LockGuard(FrameThread)
    /\ pc' = [pc EXCEPT ![FrameThread] = "copy"]
    /\ UNCHANGED <<netVars, elevVars, partials, completed, globalTerrain, storeGlobalPoints, clock,
                   framePc, integrated, delivered, emitted, calls, local>>

\* lines 45-46: out.insert(out.end(), completed.begin(), completed.end()).
CRetrieveCopy ==
    /\ pc[FrameThread] = "copy"
    /\ local' = [local EXCEPT ![FrameThread] =
                    [t |-> 0, out |-> RetrieveCompletedResult(completed).out]]
    /\ pc' = [pc EXCEPT ![FrameThread] = "clear"]
    /\ UNCHANGED <<netVars, elevVars, partials, completed, globalTerrain, storeGlobalPoints, clock,
                   framePc, integrated, delivered, emitted, calls, mutex, atLock>>

\* line 47: completed.clear().
CRetrieveClear ==
    /\ pc[FrameThread] = "clear"
    /\ completed' = RetrieveCompletedResult(completed).completed
    /\ pc' = [pc EXCEPT ![FrameThread] = "unlock"]
    /\ UNCHANGED <<netVars, elevVars, partials, globalTerrain, storeGlobalPoints, clock, framePc,
                   integrated, delivered, emitted, calls, mutex, local, atLock>>

\* lines 48-49: retrieveCompleted returns out, and the frame loop integrates
\* the returned scans in order.
CRetrieveReturn ==
    /\ framePc = "retrieve"
    /\ pc[FrameThread] = "unlock"
    /\ Unlock(FrameThread)
    /\ integrated' = integrated \o local[FrameThread].out
    /\ pc' = [pc EXCEPT ![FrameThread] = "idle"]
    /\ local' = [local EXCEPT ![FrameThread] = NoLocals]
    /\ framePc' = "maintenance"
    /\ UNCHANGED <<netVars, elevVars, partials, completed, globalTerrain, storeGlobalPoints, clock,
                   delivered, emitted, calls, atLock>>

NextConc ==
    \/ Tick
    \/ \E r \in Rovers, hdr \in LidarPacketHeader : CAddChunkLock(r, hdr)
    \/ \E r \in Rovers :
          \/ CAddChunkInit(r)
          \/ CAddChunkBit(r)
          \/ CAddChunkPoints(r)
          \/ CAddChunkCheck(r)
          \/ CAddChunkErase(r)
          \/ CAddChunkPush(r)
          \/ CAddChunkReturn(r)
    \/ CMaintenanceLock
    \/ CMaintenanceDrop
    \/ CMaintenanceMirror
    \/ CMaintenanceReturn
    \/ CRetrieveLock
    \/ CRetrieveCopy
    \/ CRetrieveClear
    \/ CRetrieveReturn

SpecConc == Init /\ [][NextConc]_vars

(* --------------------------- ElevationMap ----------------------------- *)

\* Heights (LidarPoint::y, z_mean, prev_z_mean) are fixed-point numbers in
\* millimetres, z_var in square millimetres, timestamps in milliseconds, and
\* the ground coordinates x, z in whole metres.  A float operation is the
\* exact operation rounded to the nearest unit.

\* ElevationMap::ElevationMap(): setParameters(32.0f, 0.25f, 0.25f, 0.7f, 3,
\* 20, 5, 0.06f, 1.0f).  The model runs the map with coarser cells than the
\* default 0.25 m (BaseCellRes), so that a tile's quadtree stays small.
TileSize == 32
TauAccept == 250
TauReplace == 700
K == 3
Nsat == 20
Nconf == 5
TauUpload == 60
\* "nowTs - c.lastDisagreeTs <= 1.0"
DisagreeWindowMs == 1000
\* sizeof(float)
SizeofFloat == 4
\* "if (c.disagreeHits < 255) c.disagreeHits++"
MaxDisagreeHits == 255

\* a / b rounded to the nearest integer, halves away from zero
DivRound(a, b) ==
    IF a >= 0 THEN (2 * a + b) \div (2 * b) ELSE -((2 * (-a) + b) \div (2 * b))

Abs(a) == IF a >= 0 THEN a ELSE -a
Min(a, b) == IF a <= b THEN a ELSE b
Max(a, b) == IF a >= b THEN a ELSE b

RECURSIVE PowerFor(_, _, _)
\* while (c < round(cellsPerTile) && power < 10) { c <<= 1; power++; }
PowerFor(c, power, cells) ==
    IF c < cells /\ power < 10 THEN PowerFor(2 * c, power + 1, cells) ELSE power

\* setParameters: maxDepth = power
MaxDepth == PowerFor(1, 0, DivRound(TileSize, BaseCellRes))

\* setParameters: gridNVertices = (1 << power) + 1
GridNVertices == 2 ^ MaxDepth + 1

\* A float that is not a number, as a LidarPoint may carry it off the wire:
\* a value outside the heights of the model.  An arithmetic operation on it
\* yields it, and every comparison with it is false.
NaN == -(2 ^ 30)
IsNaN(v) == v = NaN

\* enum ElevFlags: the bits of ElevCell::flags, as a set
ELEV_STABLE == "STABLE"
ELEV_CHANGED == "CHANGED"
ELEV_DIRTY == "DIRTY"
ELEV_VALID == "VALID"

\* struct ElevCell, default-initialised
ElevCell ==
    [z_mean |-> 0, z_var |-> 0, n |-> 0, disagreeHits |-> 0, age |-> 0,
     flags |-> {}, prev_z_mean |-> 0, lastDisagreeTs |-> 0, valid |-> FALSE]

\* struct QuadNode, default-initialised: a leaf with no children
QuadNode == [isLeaf |-> TRUE, cell |-> ElevCell, children |-> <<>>]

\* struct TileKey
TileKey(tx, tz) == <<tx, tz>>

\* Tile(ox, oz, s, depth): root = std::make_unique<QuadNode>()
Tile(ox, oz, s, depth) ==
    [originX |-> ox, originZ |-> oz, size |-> s, maxDepth |-> depth,
     dirty |-> FALSE, root |-> QuadNode]

\* childIndexFor: SW 0, SE 1, NW 2, NE 3
childIndexFor(x, z, cx, cz) ==
    LET xi == IF x >= cx THEN 1 ELSE 0
        zi == IF z >= cz THEN 1 ELSE 0
    IN  IF xi = 0 /\ zi = 0 THEN 0
        ELSE IF xi = 1 /\ zi = 0 THEN 1
        ELSE IF xi = 0 /\ zi = 1 THEN 2
        ELSE 3

\* locateLeaf's split of a leaf: four children, each a leaf with the
\* parent's cell
SplitNode(node) ==
    [isLeaf |-> FALSE, cell |-> node.cell,
     children |-> [i \in 1..4 |-> [isLeaf |-> TRUE, cell |-> node.cell, children |-> <<>>]]]

RECURSIVE LocateFrom(_, _, _, _, _, _, _, _)
\* The loop of locateLeaf from `depth` on: the subtree as the walk leaves it
\* and the child indices the walk takes below `node`.
LocateFrom(node, depth, maxDepth, cx, cz, half, x, z) ==
    IF depth >= maxDepth \/ (node.isLeaf /\ depth = maxDepth - 1)
    THEN [node |-> node, path |-> <<>>]
    ELSE LET split == IF node.isLeaf THEN SplitNode(node) ELSE node
             idx   == childIndexFor(x, z, cx, cz)
             h2    == half \div 2
             cx2   == IF idx = 1 \/ idx = 3 THEN cx + h2 ELSE cx - h2
             cz2   == IF idx >= 2 THEN cz + h2 ELSE cz - h2
             below == LocateFrom(split.children[idx + 1], depth + 1, maxDepth,
                                 cx2, cz2, h2, x, z)
         IN  [node |-> [split EXCEPT !.children[idx + 1] = below.node],
              path |-> <<idx>> \o below.path]

\* Tile::locateLeaf(x, z): the tile's tree after the walk and the path from
\* the root to the node returned.
locateLeaf(tile, x, z) ==
    LET half == tile.size \div 2
    IN  LocateFrom(tile.root, 0, tile.maxDepth,
                   tile.originX + half, tile.originZ + half, half, x, z)

RECURSIVE NodeAt(_, _)
\* the node a path leads to
NodeAt(node, path) ==
    IF path = <<>> THEN node ELSE NodeAt(node.children[Head(path) + 1], Tail(path))

RECURSIVE WithCell(_, _, _)
\* the tree with the cell of the node at path replaced
WithCell(node, path, cell) ==
    IF path = <<>> THEN [node EXCEPT !.cell = cell]
    ELSE [node EXCEPT !.children[Head(path) + 1] = WithCell(@, Tail(path), cell)]

\* InitCell that leaves the sample count at 0.
InitCellNoCount(c, y) ==
    [c EXCEPT !.z_mean = y, !.prev_z_mean = y, !.z_var = 0,
              !.disagreeHits = 0,
              !.flags = @ \cup {ELEV_VALID, ELEV_DIRTY, ELEV_CHANGED},
              !.valid = TRUE]

\* InitCell that sets the VALID bit and leaves the valid field alone.
InitCellNoValidField(c, y) ==
    [c EXCEPT !.z_mean = y, !.prev_z_mean = y, !.z_var = 0, !.n = 1,
              !.disagreeHits = 0,
              !.flags = @ \cup {ELEV_VALID, ELEV_DIRTY, ELEV_CHANGED}]

\* integratePoint on an invalid cell (lines 67-77)
InitCell(c, y) ==
    [c EXCEPT !.z_mean = y, !.prev_z_mean = y, !.z_var = 0, !.n = 1,
              !.disagreeHits = 0,
              !.flags = @ \cup {ELEV_VALID, ELEV_DIRTY, ELEV_CHANGED},
              !.valid = TRUE]

\* "fabs(c.z_mean - c.prev_z_mean) > tauUpload"
Moved(c) ==
    /\ ~IsNaN(c.z_mean) /\ ~IsNaN(c.prev_z_mean)
    /\ Abs(c.z_mean - c.prev_z_mean) > TauUpload

\* if (moved) { c.prev_z_mean = c.z_mean; c.flags |= ELEV_DIRTY; }
MarkIfMoved(c) ==
    IF Moved(c)
    THEN [c EXCEPT !.prev_z_mean = c.z_mean, !.flags = @ \cup {ELEV_DIRTY}]
    ELSE c

\* AgreeStats without the saturation of n at Nsat.
AgreeStatsNoCap(c, y) ==
    LET nprime == (c.n + 1) % 65536
        delta  == y - c.z_mean
    IN  [c EXCEPT !.z_mean = c.z_mean + DivRound(delta, Max(nprime, 1)),
                  !.z_var = DivRound(9 * c.z_var + delta * delta, 10),
                  !.n = nprime,
                  !.disagreeHits = 0]

\* AgreeStats with n saturating at 2 instead of Nsat.
AgreeStatsSaturatedAtTwo(c, y) ==
    LET nprime == Min(c.n + 1, 2) % 65536
        delta  == y - c.z_mean
    IN  [c EXCEPT !.z_mean = c.z_mean + DivRound(delta, Max(nprime, 1)),
                  !.z_var = DivRound(9 * c.z_var + delta * delta, 10),
                  !.n = nprime,
                  !.disagreeHits = 0]

\* the agree branch, dz <= tauAccept, up to the upload test (lines 81-88)
AgreeStats(c, y) ==
    LET nprime == Min(c.n + 1, Nsat) % 65536
        delta  == y - c.z_mean
    IN  [c EXCEPT !.z_mean = c.z_mean + DivRound(delta, Max(nprime, 1)),
                  !.z_var = DivRound(9 * c.z_var + delta * delta, 10),
                  !.n = nprime,
                  !.disagreeHits = 0]

\* CountDisagreement that also counts the point as a sample of the cell.
CountDisagreementCountsSample(c, nowTs) ==
    [c EXCEPT !.disagreeHits =
                  IF nowTs - c.lastDisagreeTs <= DisagreeWindowMs
                  THEN (IF @ < MaxDisagreeHits THEN @ + 1 ELSE @)
                  ELSE 1,
              !.lastDisagreeTs = nowTs,
              !.n = Min(@ + 1, Nsat)]

\* the disagree branch up to the remap test (lines 95-101)
CountDisagreement(c, nowTs) ==
    [c EXCEPT !.disagreeHits =
                  IF nowTs - c.lastDisagreeTs <= DisagreeWindowMs
                  THEN (IF @ < MaxDisagreeHits THEN @ + 1 ELSE @)
                  ELSE 1,
              !.lastDisagreeTs = nowTs]

\* RemapDue with "disagreeHits > K".
RemapDueAfterK(c) == c.n < Nconf \/ c.disagreeHits > K

\* RemapDue without the low-confidence test.
RemapDueHitsOnly(c) == c.disagreeHits >= K

\* "if (c.n < Nconf || c.disagreeHits >= K)"
RemapDue(c) == c.n < Nconf \/ c.disagreeHits >= K

\* the remap (lines 103-110)
RemapCell(c, y) ==
    [c EXCEPT !.z_mean = y, !.prev_z_mean = y, !.z_var = 0, !.n = 1,
              !.disagreeHits = 0,
              !.flags = @ \cup {ELEV_CHANGED, ELEV_DIRTY, ELEV_VALID},
              !.valid = TRUE]

\* the gray zone up to the upload test: emaUpdate(c.z_mean, p.y, 0.1f)
emaUpdate(c, y) ==
    [c EXCEPT !.z_mean = IF IsNaN(y) \/ IsNaN(c.z_mean) THEN NaN
                         ELSE c.z_mean + DivRound(y - c.z_mean, 10)]

\* "if (nowTs - c.lastDisagreeTs > 1.0) c.disagreeHits = 0"
DecayDisagreement(c, nowTs) ==
    IF nowTs - c.lastDisagreeTs > DisagreeWindowMs
    THEN [c EXCEPT !.disagreeHits = 0]
    ELSE c

\* The branch integratePoint takes for height y on cell c.  With y or z_mean
\* not a number, dz is not a number, "dz <= tauAccept" and "dz >= tauReplace"
\* are both false and the call takes the last branch.
BranchOf(c, y) ==
    IF ~c.valid THEN "init"
    ELSE IF IsNaN(y) \/ IsNaN(c.z_mean) THEN "gray"
    ELSE IF Abs(y - c.z_mean) <= TauAccept THEN "agree"
    ELSE IF Abs(y - c.z_mean) >= TauReplace THEN "disagree"
    ELSE "gray"

\* The cell after the body of integratePoint (lines 67-122), and whether the
\* call executed "dirty = true".
IntegrateCell(c, y, nowTs) ==
    LET b == BranchOf(c, y)
    IN  IF b = "init" THEN [cell |-> InitCell(c, y), dirty |-> TRUE]
        ELSE IF b = "agree"
        THEN [cell |-> MarkIfMoved(AgreeStats(c, y)), dirty |-> Moved(AgreeStats(c, y))]
        ELSE IF b = "disagree"
        THEN LET counted == CountDisagreement(c, nowTs)
             IN  IF RemapDue(counted)
                 THEN [cell |-> RemapCell(counted, y), dirty |-> TRUE]
                 ELSE [cell |-> counted, dirty |-> FALSE]
        ELSE [cell  |-> DecayDisagreement(MarkIfMoved(emaUpdate(c, y)), nowTs),
              dirty |-> Moved(emaUpdate(c, y))]

\* Tile::integratePoint(p, nowTs, ...): the tile after the call.
integratePoint(tile, p, nowTs) ==
    LET loc == locateLeaf(tile, p.x, p.z)
        res == IntegrateCell(NodeAt(loc.node, loc.path).cell, p.y, nowTs)
    IN  [tile EXCEPT !.root = WithCell(loc.node, loc.path, res.cell),
                     !.dirty = @ \/ res.dirty]

\* TileKeyOf without std::floor: the quotient truncated toward zero.
TileKeyOfTruncated(p) ==
    TileKey(IF p.x >= 0 THEN p.x \div TileSize ELSE -((-p.x) \div TileSize),
            IF p.z >= 0 THEN p.z \div TileSize ELSE -((-p.z) \div TileSize))

\* "static_cast<int>(std::floor(p.x / tileSize))", and the same for z
TileKeyOf(p) == TileKey(p.x \div TileSize, p.z \div TileSize)

\* ElevationMap::getOrCreateTile(tx, tz): the tile map with the tile present
getOrCreateTile(ts, key) ==
    IF key \in DOMAIN ts THEN ts
    ELSE [k \in DOMAIN ts \cup {key} |->
            IF k = key
            THEN Tile(key[1] * TileSize, key[2] * TileSize, TileSize, MaxDepth)
            ELSE ts[k]]

RECURSIVE integrateScan(_, _, _)
\* ElevationMap::integrateScan(points, nowTs): the tile map after the loop
integrateScan(ts, points, nowTs) ==
    IF points = <<>> THEN ts
    ELSE LET p    == Head(points)
             key  == TileKeyOf(p)
             have == getOrCreateTile(ts, key)
         IN  integrateScan([have EXCEPT ![key] = integratePoint(@, p, nowTs)],
                           Tail(points), nowTs)

RECURSIVE sampleLeafHeight(_)
\* sampleLeafHeight(node): a leaf's mean (0 if invalid), else the average of
\* the children
sampleLeafHeight(node) ==
    IF node.isLeaf THEN (IF node.cell.valid THEN node.cell.z_mean ELSE 0)
    ELSE IF \E i \in 1..4 : IsNaN(sampleLeafHeight(node.children[i])) THEN NaN
    ELSE DivRound(sampleLeafHeight(node.children[1]) + sampleLeafHeight(node.children[2])
                  + sampleLeafHeight(node.children[3]) + sampleLeafHeight(node.children[4]), 4)

RECURSIVE SampleFrom(_, _, _, _, _, _, _, _)
\* buildHeightGrid's walk toward (x, z): it stops at a leaf or at depth
\* maxDepth - 1
SampleFrom(node, depth, maxDepth, cx, cz, half, x, z) ==
    IF depth < maxDepth - 1 /\ ~node.isLeaf
    THEN LET idx == childIndexFor(x, z, cx, cz)
             h2  == half \div 2
         IN  SampleFrom(node.children[idx + 1], depth + 1, maxDepth,
                        IF idx = 1 \/ idx = 3 THEN cx + h2 ELSE cx - h2,
                        IF idx >= 2 THEN cz + h2 ELSE cz - h2,
                        h2, x, z)
    ELSE sampleLeafHeight(node)

\* buildHeightGrid without the last row of vertices.
buildHeightGridNoLastRow(tile, gridN) ==
    LET step == tile.size \div (gridN - 1)
        half == tile.size \div 2
    IN  [v \in 1..(gridN * (gridN - 1)) |->
            LET i == (v - 1) % gridN
                j == (v - 1) \div gridN
            IN  SampleFrom(tile.root, 0, tile.maxDepth,
                           tile.originX + half, tile.originZ + half, half,
                           tile.originX + i * step, tile.originZ + j * step)]

\* Tile::buildHeightGrid(gridNVertices, outHeights): outHeights, row-major,
\* outHeights[j * N + i] at position j * N + i + 1
buildHeightGrid(tile, gridN) ==
    LET step == tile.size \div (gridN - 1)
        half == tile.size \div 2
    IN  [v \in 1..(gridN * gridN) |->
            LET i == (v - 1) % gridN
                j == (v - 1) \div gridN
            IN  SampleFrom(tile.root, 0, tile.maxDepth,
                           tile.originX + half, tile.originZ + half, half,
                           tile.originX + i * step, tile.originZ + j * step)]

\* TileKey::operator<
KeyLess(a, b) == IF a[1] # b[1] THEN a[1] < b[1] ELSE a[2] < b[2]

RECURSIVE InKeyOrder(_)
\* the keys of a set in the order std::map iterates them
InKeyOrder(keys) ==
    IF keys = {} THEN <<>>
    ELSE LET first == CHOOSE a \in keys : \A b \in keys \ {a} : KeyLess(a, b)
         IN  <<first>> \o InKeyOrder(keys \ {first})

\* struct TileUpdate as consumeDirtyTiles* fills it
TileUpdate(ts, key) ==
    [key |-> key, tileSize |-> TileSize, heights |-> buildHeightGrid(ts[key], GridNVertices)]

RECURSIVE ConsumeLoopKeepsDirty(_, _, _, _)
\* ConsumeLoop without "t.dirty = false".
ConsumeLoopKeepsDirty(ts, order, out, budgetTiles) ==
    IF order = <<>> \/ (budgetTiles >= 0 /\ Len(out) >= budgetTiles)
    THEN [tiles |-> ts, updates |-> out]
    ELSE LET key == Head(order)
         IN  IF ~ts[key].dirty
             THEN ConsumeLoopKeepsDirty(ts, Tail(order), out, budgetTiles)
             ELSE ConsumeLoopKeepsDirty(ts, Tail(order),
                                        Append(out, TileUpdate(ts, key)), budgetTiles)

RECURSIVE ConsumeLoopOneMore(_, _, _, _)
\* ConsumeLoop with the size test "updates.size() > budgetTiles".
ConsumeLoopOneMore(ts, order, out, budgetTiles) ==
    IF order = <<>> \/ (budgetTiles >= 0 /\ Len(out) > budgetTiles)
    THEN [tiles |-> ts, updates |-> out]
    ELSE LET key == Head(order)
         IN  IF ~ts[key].dirty
             THEN ConsumeLoopOneMore(ts, Tail(order), out, budgetTiles)
             ELSE ConsumeLoopOneMore([ts EXCEPT ![key].dirty = FALSE], Tail(order),
                                     Append(out, TileUpdate(ts, key)), budgetTiles)

RECURSIVE ConsumeLoop(_, _, _, _)
\* for (auto& kv : tiles) { if (updates.size() >= budgetTiles) break;
\*                          if (!t.dirty) continue; export; t.dirty = false; }
\* budgetTiles -1 stands for the loop without the size test.
ConsumeLoop(ts, order, out, budgetTiles) ==
    IF order = <<>> \/ (budgetTiles >= 0 /\ Len(out) >= budgetTiles)
    THEN [tiles |-> ts, updates |-> out]
    ELSE LET key == Head(order)
         IN  IF ~ts[key].dirty
             THEN ConsumeLoop(ts, Tail(order), out, budgetTiles)
             ELSE ConsumeLoop([ts EXCEPT ![key].dirty = FALSE], Tail(order),
                              Append(out, TileUpdate(ts, key)), budgetTiles)

\* ElevationMap::consumeDirtyTiles(): the returned vector and the tile map left
consumeDirtyTiles(ts) == ConsumeLoop(ts, InKeyOrder(DOMAIN ts), <<>>, -1)

\* consumeDirtyTilesBudgeted with the tile budget rounded up.
consumeDirtyTilesBudgetedRoundUp(ts, maxBytes) ==
    LET perTile == GridNVertices * GridNVertices * SizeofFloat
        budget  == (maxBytes + perTile - 1) \div perTile
    IN  IF perTile = 0 THEN [tiles |-> ts, updates |-> <<>>]
        ELSE ConsumeLoop(ts, InKeyOrder(DOMAIN ts), <<>>,
                         IF budget = 0 THEN 1 ELSE budget)

\* ElevationMap::consumeDirtyTilesBudgeted(maxBytes)
consumeDirtyTilesBudgeted(ts, maxBytes) ==
    LET perTile == GridNVertices * GridNVertices * SizeofFloat
        budget  == maxBytes \div perTile
    IN  IF perTile = 0 THEN [tiles |-> ts, updates |-> <<>>]
        ELSE ConsumeLoop(ts, InKeyOrder(DOMAIN ts), <<>>,
                         IF budget = 0 THEN 1 ELSE budget)

(* ----------------------- ElevationMap: history ------------------------ *)

\* The bag b with one more t, counting up to K.
Logged(b, t) ==
    [x \in DOMAIN b \cup {t} |->
        IF x = t THEN Min(K, (IF t \in DOMAIN b THEN b[t] ELSE 0) + 1) ELSE b[x]]

\* The disagree log of a cell, empty if none was kept yet.
LogOf(log, cellId) == IF cellId \in DOMAIN log THEN log[cellId] ELSE << >>

RECURSIVE LogAfter(_, _, _, _)
\* disagreeLog after integrateScan(points, nowTs) from tile map ts: a point
\* that initialises or remaps its cell empties the cell's log, a disagree-zone
\* point that does not remap adds its timestamp.
LogAfter(ts, log, points, nowTs) ==
    IF points = <<>> THEN log
    ELSE LET p      == Head(points)
             key    == TileKeyOf(p)
             have   == getOrCreateTile(ts, key)
             loc    == locateLeaf(have[key], p.x, p.z)
             c      == NodeAt(loc.node, loc.path).cell
             cellId == <<key, loc.path>>
             b      == BranchOf(c, p.y)
             entry  == IF b = "init" THEN << >>
                       ELSE IF b = "disagree"
                       THEN (IF RemapDue(CountDisagreement(c, nowTs)) THEN << >>
                             ELSE Logged(LogOf(log, cellId), nowTs))
                       ELSE LogOf(log, cellId)
         IN  LogAfter([have EXCEPT ![key] = integratePoint(@, p, nowTs)],
                      [x \in DOMAIN log \cup {cellId} |->
                          IF x = cellId THEN entry ELSE log[x]],
                      Tail(points), nowTs)

RECURSIVE LeafMeans(_, _)
\* The z_mean of every valid leaf below node, by the leaf's path from the
\* root (prefix: the path of node).
LeafMeans(node, prefix) ==
    IF node.isLeaf
    THEN (IF node.cell.valid THEN {<<prefix, node.cell.z_mean>>} ELSE {})
    ELSE UNION {LeafMeans(node.children[i], Append(prefix, i - 1)) : i \in 1..4}

\* The cell that integratePoint(p, ...) works on, named by its tile and its
\* path from the tile's root.
CellIdOf(ts, p) ==
    <<TileKeyOf(p),
      locateLeaf(getOrCreateTile(ts, TileKeyOf(p))[TileKeyOf(p)], p.x, p.z).path>>

\* lastExport after a consume call returned `out` from tile map ts.
ExportedAfter(ts, last, out) ==
    LET keys == {out[i].key : i \in 1..Len(out)}
    IN  [k \in DOMAIN last \cup keys |->
            IF k \in keys THEN LeafMeans(ts[k].root, <<>>) ELSE last[k]]

(* ----------------------- ElevationMap: actions ------------------------ *)

\* elevMap.integrateScan(points, nowTs)
Integrate(points, nowTs) ==
    /\ tiles' = integrateScan(tiles, points, nowTs)
    /\ UNCHANGED <<updates, lastExport, disagreeWindow, asmVars, netVars>>

\* integrateScan in a run of any length; such a run keeps no disagree log.
IntegrateScan(points, nowTs) ==
    /\ Integrate(points, nowTs)
    /\ UNCHANGED <<nScans, disagreeLog, groundLog>>

\* integrateScan in a run of at most MaxScans calls, with the disagree log kept.
IntegrateScanCounted(points, nowTs) ==
    /\ nScans < MaxScans
    /\ nScans' = nScans + 1
    /\ disagreeLog' = LogAfter(tiles, disagreeLog, points, nowTs)
    /\ UNCHANGED groundLog
    /\ Integrate(points, nowTs)

\* auto updates = elevMap.consumeDirtyTiles()
ConsumeDirtyTiles ==
    LET res == consumeDirtyTiles(tiles)
    IN  /\ tiles' = res.tiles
        /\ updates' = res.updates
        /\ lastExport' = ExportedAfter(tiles, lastExport, res.updates)
        /\ UNCHANGED <<nScans, disagreeLog, groundLog, disagreeWindow, asmVars, netVars>>

\* auto updates = elevMap.consumeDirtyTilesBudgeted(maxBytes)
ConsumeDirtyTilesBudgeted(maxBytes) ==
    LET res == consumeDirtyTilesBudgeted(tiles, maxBytes)
    IN  /\ tiles' = res.tiles
        /\ updates' = res.updates
        /\ lastExport' = ExportedAfter(tiles, lastExport, res.updates)
        /\ UNCHANGED <<nScans, disagreeLog, groundLog, disagreeWindow, asmVars, netVars>>

\* A point on the cell of (1, 1) at height y.
CellPoint(y) == [x |-> 1, y |-> y, z |-> 1]

\* The scans drawn from a set of points: empty, one point, two points.
ScanLengths == {0, 1, 2}
ScansOf(points) == UNION {[1..len -> points] : len \in ScanLengths}

\* The byte budgets a caller passes: none, less than a tile, one tile, two
\* tiles and a half, and the frame loop's 10 * 1024 * 1024.
ByteBudgets ==
    {0, GridNVertices * GridNVertices * SizeofFloat - 1,
     GridNVertices * GridNVertices * SizeofFloat,
     (5 * GridNVertices * GridNVertices * SizeofFloat) \div 2,
     10 * 1024 * 1024}

\* One cell under agreeing and disagreeing points, in runs of any length:
\* every point at height 0 or 1000 mm, the scans 0, 600 or 1200 ms apart.
CellHeights == {0, 1000}
CellTimes == {0, 600, 1200}
CellPoints == {CellPoint(y) : y \in CellHeights}

NextCell ==
    \/ \E points \in ScansOf(CellPoints), nowTs \in CellTimes : IntegrateScan(points, nowTs)
    \/ ConsumeDirtyTiles
    \/ \E maxBytes \in ByteBudgets : ConsumeDirtyTilesBudgeted(maxBytes)

SpecCell == Init /\ [][NextCell]_vars

\* One cell drifting under small steps: points within the agree zone and the
\* gray zone of each other, in runs of MaxScans scans of one point each.
DriftHeights == {0, 100, -150, 500}
DriftTimes == {0}
DriftScans == {<<CellPoint(y)>> : y \in DriftHeights}

NextDrift ==
    \/ \E points \in DriftScans, nowTs \in DriftTimes :
          IntegrateScanCounted(points, nowTs)
    \/ ConsumeDirtyTiles
    \/ \E maxBytes \in ByteBudgets : ConsumeDirtyTilesBudgeted(maxBytes)

SpecDrift == Init /\ [][NextDrift]_vars

\* One confident cell under outliers, in runs of MaxScans scans: a scan is
\* one point, or Nconf points on the ground followed by at most one more.
GroundScan == [i \in 1..Nconf |-> CellPoint(0)]
WindowScans ==
    {<<pt>> : pt \in CellPoints} \cup {GroundScan}
        \cup {Append(GroundScan, pt) : pt \in CellPoints}

NextWindow ==
    \E points \in WindowScans, nowTs \in CellTimes : IntegrateScanCounted(points, nowTs)

SpecWindow == Init /\ [][NextWindow]_vars

\* elevMap.setParameters(32, 0.25, 0.25, 0.7, 3, 20, 5, 0.06, W): the other
\* parameters at the values they have; only the window differs.
SetParameters(W) ==
    /\ disagreeWindow' = W
    /\ UNCHANGED <<tiles, updates, nScans, lastExport, disagreeLog, groundLog,
                   asmVars, netVars>>

\* The windows a caller configures: half a second, the default, two seconds.
ParamWindows == {500, 1000, 2000}

\* One confident cell under outliers with the window reconfigured between
\* scans.
NextParams ==
    \/ \E W \in ParamWindows : SetParameters(W)
    \/ \E points \in WindowScans, nowTs \in CellTimes : IntegrateScanCounted(points, nowTs)

SpecParams == Init /\ [][NextParams]_vars

\* Several tiles under a byte budget: points at height 0 on four tiles (one
\* of them west of the origin, one on a tile boundary), in runs of MaxScans
\* scans.
MapPoints == {[x |-> x, y |-> 0, z |-> 1] : x \in {-1, 1, 32, 70}}
MapTimes == {0}

NextMap ==
    \/ \E points \in ScansOf(MapPoints), nowTs \in MapTimes : IntegrateScanCounted(points, nowTs)
    \/ ConsumeDirtyTiles
    \/ \E maxBytes \in ByteBudgets : ConsumeDirtyTilesBudgeted(maxBytes)

SpecMap == Init /\ [][NextMap]_vars

\* One cell under agreeing points only, in runs of MaxGroundPoints points:
\* each point lies tau_accept above the cell's running mean, or (among the
\* first MaxLevelPoints) on it or tau_accept below it.  The first point, on
\* the cell not yet valid, lies at that offset from 0.
GroundOffsets ==
    IF groundLog.count < MaxLevelPoints THEN {-TauAccept, 0, TauAccept} ELSE {TauAccept}

\* The cell of CellPoint(.) in tile map ts.
GroundCell(ts) ==
    LET key  == TileKeyOf(CellPoint(0))
        have == getOrCreateTile(ts, key)
        loc  == locateLeaf(have[key], CellPoint(0).x, CellPoint(0).z)
    IN  NodeAt(loc.node, loc.path).cell

\* elevMap.integrateScan({p}, 0) for a point p at offset d from the mean of
\* its cell
IntegrateGround(d) ==
    LET c == GroundCell(tiles)
        p == CellPoint(IF c.valid THEN c.z_mean + d ELSE d)
    IN  /\ groundLog.count < MaxGroundPoints
        /\ groundLog' = [sum |-> groundLog.sum + p.y, count |-> groundLog.count + 1]
        /\ Integrate(<<p>>, 0)
        /\ UNCHANGED <<nScans, disagreeLog>>

NextGround == \E d \in GroundOffsets : IntegrateGround(d)

SpecGround == Init /\ [][NextGround]_vars

\* One cell under scans that carry a point whose height is not a number, in
\* runs of MaxScans scans.
NonFiniteHeights == {0, 1000, NaN}
NonFinitePoints == {CellPoint(y) : y \in NonFiniteHeights}
NonFiniteScans == ScansOf(NonFinitePoints)
NonFiniteTimes == {0}

NextNonFinite ==
    \/ \E points \in NonFiniteScans, nowTs \in NonFiniteTimes :
          IntegrateScanCounted(points, nowTs)
    \/ ConsumeDirtyTiles

SpecNonFinite == Init /\ [][NextNonFinite]_vars

\* The frame loop over two adjacent tiles, in runs of any length: each frame
\* integrates the completed scans and then calls consumeDirtyTilesBudgeted
\* once.  Tile (0, 0) takes points at 0 and at 1000 mm, tile (1, 0) points at
\* 0 mm.
FramePoints ==
    {[x |-> 20, y |-> 0, z |-> 1], [x |-> 20, y |-> 1000, z |-> 1],
     [x |-> 32, y |-> 0, z |-> 1]}
FrameScans == {<<pt>> : pt \in FramePoints}
FrameTimes == {0}

\* "auto updates = elevMap.consumeDirtyTilesBudgeted(...)" of some frame
FrameConsume == \E maxBytes \in ByteBudgets : ConsumeDirtyTilesBudgeted(maxBytes)

NextFrames ==
    \/ \E points \in FrameScans, nowTs \in FrameTimes : IntegrateScan(points, nowTs)
    \/ FrameConsume

\* The frame loop never stops: the consume call of every frame is made.
SpecFrames == Init /\ [][NextFrames]_vars /\ WF_vars(FrameConsume)

(* --------------------------- NetworkManager --------------------------- *)

\* sizeof(WireLidarPacket): the header and MAX_LIDAR_POINTS_PER_PACKET points
SizeofWireLidarPacket ==
    SizeofWireLidarPacketHeader + MAX_LIDAR_POINTS_PER_PACKET * SizeofWireLidarPoint

\* The lidar datagrams a sender may put on the wire: the point count its
\* header declares and its length in bytes, whether or not the two agree.
DeclaredPoints == {0, 1, MAX_LIDAR_POINTS_PER_PACKET, MAX_LIDAR_POINTS_PER_PACKET + 1, 200}
DatagramBytes ==
    {0, SizeofWireLidarPacketHeader - 1}
        \cup {SizeofWireLidarPacketHeader + n * SizeofWireLidarPoint : n \in DeclaredPoints}
LidarDatagrams == [pointsInThisChunk : DeclaredPoints, bytes : DatagramBytes]

\* recvfrom(state->lidarSocket, buffer, sizeof(buffer), ...): the bytes
\* stored, a longer datagram being cut to the buffer
recvfrom(dgram) == Min(dgram.bytes, SizeofWireLidarPacket)

\* "if (pointsCount > MAX_LIDAR_POINTS_PER_PACKET) pointsCount = MAX_..."
PointsCount(dgram) == Min(dgram.pointsInThisChunk, MAX_LIDAR_POINTS_PER_PACKET)

\* The two tests of lidarReceiveThread that lead to processLidarPacket
LidarAccepted(dgram) ==
    LET bytesReceived == recvfrom(dgram)
        expectedSize  == SizeofWireLidarPacketHeader + PointsCount(dgram) * SizeofWireLidarPoint
    IN  /\ bytesReceived >= SizeofWireLidarPacketHeader
        /\ bytesReceived = expectedSize

\* One round of lidarReceiveThread's loop on a datagram received.
LidarReceive(dgram) ==
    /\ Len(lidarPackets) < MaxDatagrams
    /\ lidarPackets' =
          Append(lidarPackets,
                 [datagram  |-> dgram,
                  processed |-> LidarAccepted(dgram),
                  pointsInThisChunk |-> PointsCount(dgram)])
    /\ UNCHANGED <<asmVars, elevVars, roverVars>>

NextNet == \E dgram \in LidarDatagrams : LidarReceive(dgram)

SpecNet == Init /\ [][NextNet]_vars

\* LidarAssemblyState::isComplete
isComplete(assembly) ==
    assembly.receivedChunks = assembly.totalChunks /\ assembly.totalChunks > 0

\* LidarAssemblyState::isExpired(currentTime, timeoutMs), times in ms
isExpired(assembly, currentTime, timeoutMs) ==
    currentTime - assembly.firstChunkTime > timeoutMs

\* updateNetworkStats(state, packetType)
updateNetworkStats(state, now) ==
    [state EXCEPT !.stats.lastPacketTime = now, !.stats.totalPackets = @ + 1]

\* processPosePacket(state, packet)
processPosePacket(state, packet, now) ==
    updateNetworkStats([state EXCEPT !.latestPose = packet, !.lastPacketTime = now], now)

\* processTelemPacket(state, packet)
processTelemPacket(state, packet, now) ==
    updateNetworkStats([state EXCEPT !.latestTelem = packet, !.lastPacketTime = now], now)

\* "auto& assembly = state.lidarAssembly[timestamp]" with the initialisation
\* of a first chunk (lines 483-491)
AssemblyFor(state, packet, now) ==
    LET found == IF packet.header.timestamp \in DOMAIN state.lidarAssembly
                 THEN state.lidarAssembly[packet.header.timestamp]
                 ELSE LidarAssemblyState
    IN  IF found.timestamp = 0
        THEN [found EXCEPT !.timestamp = packet.header.timestamp,
                           !.totalChunks = packet.header.totalChunks,
                           !.firstChunkTime = now]
        ELSE found

\* The map with the entry of timestamp ts set to assembly.
WithAssembly(map, ts, assembly) ==
    [k \in DOMAIN map \cup {ts} |-> IF k = ts THEN assembly ELSE map[k]]

\* The block of processLidarPacket under the lock (lines 479-510): the rover
\* state after it, the points it counted and whether it returned early.
LidarLockedBlock(state, packet, now) ==
    LET assembly == AssemblyFor(state, packet, now)
        ts == packet.header.timestamp
    IN  IF \/ packet.header.chunkIndex >= MaxChunkIndex
           \/ packet.header.chunkIndex \in assembly.chunkReceived
        THEN [state |-> [state EXCEPT !.lidarAssembly = WithAssembly(@, ts, assembly)],
              points |-> 0, returned |-> TRUE]
        ELSE [state |-> [state EXCEPT !.lidarAssembly =
                            WithAssembly(@, ts,
                                [assembly EXCEPT
                                    !.points = @ \o packet.points,
                                    !.chunkReceived = @ \cup {packet.header.chunkIndex},
                                    !.receivedChunks = @ + 1])],
              points |-> packet.header.pointsInThisChunk, returned |-> FALSE]

\* processLidarPacket(state, packet): the rover state after the call and the
\* points added to m_totalPointsReceived
processLidarPacket(state, packet, now) ==
    LET block == LidarLockedBlock(state, packet, now)
    IN  IF block.returned THEN [state |-> block.state, points |-> 0]
        ELSE [state |-> updateNetworkStats([block.state EXCEPT !.lastPacketTime = now], now),
              points |-> block.points]

RECURSIVE Ascending(_)
\* The iteration order of std::map<double, ...>: the keys in ascending order.
Ascending(keys) ==
    IF keys = {} THEN <<>>
    ELSE LET least == CHOOSE k \in keys : \A other \in keys : k <= other
         IN  <<least>> \o Ascending(keys \ {least})

\* The map without the entries of the keys in gone.
Erased(map, gone) == [k \in DOMAIN map \ gone |-> map[k]]

\* getCompletedLidarScans(roverId, outScans): the rover state after the call
\* and the scans written to outScans
getCompletedLidarScans(state, currentTime) ==
    LET map == state.lidarAssembly
        complete == {ts \in DOMAIN map : isComplete(map[ts])}
        expired == {ts \in DOMAIN map \ complete :
                       isExpired(map[ts], currentTime, PACKET_TIMEOUT_MS)}
        order == Ascending(complete)
    IN  [state |-> [state EXCEPT !.lidarAssembly = Erased(map, complete \cup expired)],
         outScans |-> [i \in 1..Len(order) |->
                          [timestamp |-> order[i], roverId |-> 1,
                           points |-> map[order[i]].points]]]

\* assembleLidarScans(state)
assembleLidarScans(state) ==
    [state EXCEPT !.lidarAssembly =
        Erased(@, {ts \in DOMAIN @ : isComplete(@[ts])})]

\* cleanupExpiredLidarStates(state)
cleanupExpiredLidarStates(state, currentTime) ==
    [state EXCEPT !.lidarAssembly =
        Erased(@, {ts \in DOMAIN @ : isExpired(@[ts], currentTime, PACKET_TIMEOUT_MS)})]

\* The loop of update() over the rovers' online status (lines 141-154)
UpdateOnline(state, currentTime) ==
    [state EXCEPT !.online = currentTime - state.lastPacketTime < ROVER_OFFLINE_TIMEOUT_MS]

\* The packet lidarReceiveThread builds from an accepted datagram (lines
\* 390-404): the i-th point of chunk c is <<c, i>>.
LidarPacketOf(dgram) ==
    [header |-> [timestamp |-> dgram.timestamp, chunkIndex |-> dgram.chunkIndex,
                 totalChunks |-> dgram.totalChunks,
                 pointsInThisChunk |-> PointsCount(dgram)],
     points |-> [i \in 1..PointsCount(dgram) |-> <<dgram.chunkIndex, i>>]]

\* The history after a datagram was received.
Received(hist, kind, dgram) ==
    [hist EXCEPT !.received = @ + 1,
                 !.lastDatagram = [kind |-> kind, datagram |-> dgram]]

\* completions after processLidarPacket took the map from before to after at
\* time now: one more for a timestamp whose assembly has become complete
\* before it expired.
CompletionsAfter(completions, before, after, now) ==
    LET fresh == {ts \in DOMAIN after :
                     /\ isComplete(after[ts])
                     /\ ~isExpired(after[ts], now, PACKET_TIMEOUT_MS)
                     /\ ~(ts \in DOMAIN before /\ isComplete(before[ts]))}
    IN  [ts \in DOMAIN completions \cup fresh |->
            (IF ts \in DOMAIN completions THEN completions[ts] ELSE 0)
                + (IF ts \in fresh THEN 1 ELSE 0)]

\* One round of poseReceiveThread's loop on a datagram received; recvfrom
\* stores at most sizeof(buffer) bytes, a longer datagram being cut.
PoseReceive(dgram) ==
    /\ netHist.received < MaxDatagrams
    /\ roverState' =
          IF Min(dgram.bytes, SizeofWirePosePacket) = SizeofWirePosePacket
          THEN processPosePacket(roverState,
                                 [timestamp |-> dgram.timestamp, posX |-> dgram.posX],
                                 netClock)
          ELSE roverState
    /\ netHist' = Received(netHist, "pose", dgram)
    /\ UNCHANGED <<m_totalPointsReceived, netClock, outScans, dataMutex, netPc,
                   lidarPackets, asmVars, elevVars>>

\* One round of telemReceiveThread's loop on a datagram received.
TelemReceive(dgram) ==
    /\ netHist.received < MaxDatagrams
    /\ roverState' =
          IF Min(dgram.bytes, SizeofWireVehicleTelem) = SizeofWireVehicleTelem
          THEN processTelemPacket(roverState,
                                  [timestamp |-> dgram.timestamp,
                                   buttonStates |-> dgram.buttonStates],
                                  netClock)
          ELSE roverState
    /\ netHist' = Received(netHist, "telem", dgram)
    /\ UNCHANGED <<m_totalPointsReceived, netClock, outScans, dataMutex, netPc,
                   lidarPackets, asmVars, elevVars>>

\* One round of lidarReceiveThread's loop on a datagram received, with the
\* call of processLidarPacket it makes.
LidarChunkReceive(dgram) ==
    /\ netHist.received < MaxDatagrams
    /\ LET res == IF LidarAccepted(dgram)
                  THEN processLidarPacket(roverState, LidarPacketOf(dgram), netClock)
                  ELSE [state |-> roverState, points |-> 0]
       IN  /\ roverState' = res.state
           /\ m_totalPointsReceived' = m_totalPointsReceived + res.points
           /\ netHist' =
                 [Received(netHist, "lidar", dgram) EXCEPT
                     !.completions = CompletionsAfter(@, roverState.lidarAssembly,
                                                      res.state.lidarAssembly, netClock)]
    /\ UNCHANGED <<netClock, outScans, dataMutex, netPc, lidarPackets, asmVars, elevVars>>

\* high_resolution_clock advancing.
NetTick ==
    /\ netClock < MaxNetTicks * TickMs
    /\ netClock' = netClock + TickMs
    /\ UNCHANGED <<roverState, m_totalPointsReceived, outScans, dataMutex, netPc,
                   netHist, lidarPackets, asmVars, elevVars>>

\* update() up to the end of assembleLidarScans: the command queue (empty),
\* the online status, the erasure of the complete assemblies.
UpdateAssemble ==
    /\ netPc["main"] = NetIdle
    /\ roverState' = assembleLidarScans(UpdateOnline(roverState, netClock))
    /\ netPc' = [netPc EXCEPT !["main"] = [call |-> "update", at |-> "cleanupExpiredLidarStates"]]
    /\ UNCHANGED <<m_totalPointsReceived, netClock, outScans, dataMutex, netHist,
                   lidarPackets, asmVars, elevVars>>

\* update() from cleanupExpiredLidarStates to its return.
UpdateCleanup ==
    /\ netPc["main"] = [call |-> "update", at |-> "cleanupExpiredLidarStates"]
    /\ roverState' = cleanupExpiredLidarStates(roverState, netClock)
    /\ netPc' = [netPc EXCEPT !["main"] = NetIdle]
    /\ UNCHANGED <<m_totalPointsReceived, netClock, outScans, dataMutex, netHist,
                   lidarPackets, asmVars, elevVars>>

\* net.getCompletedLidarScans(1, outScans)
GetCompletedLidarScans ==
    /\ netPc["main"] = NetIdle
    /\ LET res == getCompletedLidarScans(roverState, netClock)
           map == roverState.lidarAssembly
       IN  /\ roverState' = res.state
           /\ outScans' = res.outScans
           /\ netHist' =
                 [netHist EXCEPT !.returned =
                     @ \o [i \in 1..Len(res.outScans) |->
                              [timestamp |-> res.outScans[i].timestamp,
                               totalChunks |-> map[res.outScans[i].timestamp].totalChunks,
                               chunkReceived |-> map[res.outScans[i].timestamp].chunkReceived]]]
    /\ UNCHANGED <<m_totalPointsReceived, netClock, dataMutex, netPc,
                   lidarPackets, asmVars, elevVars>>

\* The datagrams a sender may put on the pose socket: one byte short, the
\* layout's length, one byte long.
PoseDatagrams ==
    [bytes : {SizeofWirePosePacket - 1, SizeofWirePosePacket, SizeofWirePosePacket + 1},
     timestamp : {1000, 2000}, posX : {7}]

\* The datagrams a sender may put on the telemetry socket.
TelemDatagrams ==
    [bytes : {SizeofWireVehicleTelem - 1, SizeofWireVehicleTelem, SizeofWireVehicleTelem + 1},
     timestamp : {1000, 2000}, buttonStates : {5}]

\* The datagrams a sender may put on the lidar socket: chunk 0 of a scan of
\* two chunks, declaring one point or one more than a packet holds, with the
\* length for one point, for two, and for a full packet and more.
LidarChunkDatagrams ==
    [timestamp : {1000}, chunkIndex : {0}, totalChunks : {2},
     pointsInThisChunk : {1, MAX_LIDAR_POINTS_PER_PACKET + 1},
     bytes : {SizeofWireLidarPacketHeader + SizeofWireLidarPoint,
              SizeofWireLidarPacketHeader + 2 * SizeofWireLidarPoint,
              SizeofWireLidarPacket + SizeofWireLidarPoint}]

\* The three receive threads of one rover taking datagrams of any length.
NextRecv ==
    \/ \E dgram \in PoseDatagrams : PoseReceive(dgram)
    \/ \E dgram \in TelemDatagrams : TelemReceive(dgram)
    \/ \E dgram \in LidarChunkDatagrams : LidarChunkReceive(dgram)
    \/ NetTick

SpecRecv == Init /\ [][NextRecv]_vars

\* The well-formed chunks of one point each that a sender may put on the
\* lidar socket: scans of two chunks at two timestamps, the chunk index
\* inside the scan, beyond its end, or beyond the chunkReceived array.
ScanChunkDatagrams ==
    [timestamp : {1000, 2000}, chunkIndex : {0, 1, 5, MaxChunkIndex}, totalChunks : {2},
     pointsInThisChunk : {1},
     bytes : {SizeofWireLidarPacketHeader + SizeofWireLidarPoint}]

\* The lidar receive thread against the main thread's update() and
\* getCompletedLidarScans() calls, every section under dataMutex one step.
NextScans ==
    \/ \E dgram \in ScanChunkDatagrams : LidarChunkReceive(dgram)
    \/ NetTick
    \/ UpdateAssemble
    \/ UpdateCleanup
    \/ GetCompletedLidarScans

SpecScans == Init /\ [][NextScans]_vars

\* The datagram each receive thread takes in the statement-by-statement
\* specification: a pose, a telemetry message, the
\* only chunk of a scan of one point.
RaceDatagram(t) ==
    IF t = "pose" THEN [bytes |-> SizeofWirePosePacket, timestamp |-> 1000, posX |-> 7]
    ELSE IF t = "telem"
    THEN [bytes |-> SizeofWireVehicleTelem, timestamp |-> 1000, buttonStates |-> 5]
    ELSE [timestamp |-> 1000, chunkIndex |-> 0, totalChunks |-> 1, pointsInThisChunk |-> 1,
          bytes |-> SizeofWireLidarPacketHeader + SizeofWireLidarPoint]

\* Thread t at place `at` of call `call`.
NetAt(t, call, at) == netPc[t] = [call |-> call, at |-> at]
NetGoto(t, call, at) == netPc' = [netPc EXCEPT ![t] = [call |-> call, at |-> at]]

\* process*Packet, "std::lock_guard<std::mutex> lock(state.dataMutex)" of the
\* first block: the receive thread has taken a datagram and waits for the
\* mutex.
ProcessLock(t) ==
    /\ netPc[t] = NetIdle
    /\ netHist.received < MaxDatagrams
    /\ dataMutex = NoOwner
    /\ dataMutex' = t
    /\ NetGoto(t, "process", "block")
    /\ netHist' = Received(netHist, t, RaceDatagram(t))
    /\ UNCHANGED <<roverState, m_totalPointsReceived, netClock, outScans,
                   lidarPackets, asmVars, elevVars>>

\* The first block to its closing brace: "state.latestPose = packet",
\* "state.latestTelem = packet" or lines 482-509 of processLidarPacket, and
\* the release of the mutex (also on processLidarPacket's early return).
ProcessBlock(t) ==
    /\ NetAt(t, "process", "block")
    /\ dataMutex' = NoOwner
    /\ LET block == LidarLockedBlock(roverState, LidarPacketOf(RaceDatagram("lidar")), netClock)
       IN  /\ roverState' =
                 IF t = "pose"
                 THEN [roverState EXCEPT
                          !.latestPose = [timestamp |-> RaceDatagram(t).timestamp,
                                          posX |-> RaceDatagram(t).posX]]
                 ELSE IF t = "telem"
                 THEN [roverState EXCEPT
                          !.latestTelem = [timestamp |-> RaceDatagram(t).timestamp,
                                           buttonStates |-> RaceDatagram(t).buttonStates]]
                 ELSE block.state
           /\ m_totalPointsReceived' =
                 m_totalPointsReceived + (IF t = "lidar" THEN block.points ELSE 0)
           /\ IF t = "lidar" /\ block.returned
              THEN netPc' = [netPc EXCEPT ![t] = NetIdle]
              ELSE NetGoto(t, "process", "lastPacketTime")
    /\ UNCHANGED <<netClock, outScans, netHist, lidarPackets, asmVars, elevVars>>

\* "state.lastPacketTime = std::chrono::high_resolution_clock::now()"
ProcessLastPacketTime(t) ==
    /\ NetAt(t, "process", "lastPacketTime")
    /\ roverState' = [roverState EXCEPT !.lastPacketTime = netClock]
    /\ NetGoto(t, "process", "updateNetworkStats")
    /\ UNCHANGED <<m_totalPointsReceived, netClock, outScans, dataMutex, netHist,
                   lidarPackets, asmVars, elevVars>>

\* updateNetworkStats: its lock_guard
StatsLock(t) ==
    /\ NetAt(t, "process", "updateNetworkStats")
    /\ dataMutex = NoOwner
    /\ dataMutex' = t
    /\ NetGoto(t, "process", "stats")
    /\ UNCHANGED <<roverState, m_totalPointsReceived, netClock, outScans, netHist,
                   lidarPackets, asmVars, elevVars>>

\* updateNetworkStats: its body and return, then process*Packet's return
StatsWrite(t) ==
    /\ NetAt(t, "process", "stats")
    /\ roverState' = updateNetworkStats(roverState, netClock)
    /\ dataMutex' = NoOwner
    /\ netPc' = [netPc EXCEPT ![t] = NetIdle]
    /\ UNCHANGED <<m_totalPointsReceived, netClock, outScans, netHist,
                   lidarPackets, asmVars, elevVars>>

\* The main thread calls update(): the command queue is empty and the thread
\* reaches the read of state->lastPacketTime (line 143).
UpdateCall ==
    /\ netPc["main"] = NetIdle
    /\ NetGoto("main", "update", "lastPacketTime")
    /\ UNCHANGED <<roverState, m_totalPointsReceived, netClock, outScans, dataMutex,
                   netHist, lidarPackets, asmVars, elevVars>>

\* update(): lines 143-147, the read of lastPacketTime and the store to online
UpdateReadLastPacketTime ==
    /\ NetAt("main", "update", "lastPacketTime")
    /\ roverState' = UpdateOnline(roverState, netClock)
    /\ NetGoto("main", "update", "assembleLidarScans")
    /\ UNCHANGED <<m_totalPointsReceived, netClock, outScans, dataMutex, netHist,
                   lidarPackets, asmVars, elevVars>>

\* The lock_guard of assembleLidarScans, of cleanupExpiredLidarStates, of
\* getLatestPose or of getLatestTelemetry
MainLock(call, at) ==
    /\ NetAt("main", call, at)
    /\ dataMutex = NoOwner
    /\ dataMutex' = "main"
    /\ NetGoto("main", call, "locked")
    /\ UNCHANGED <<roverState, m_totalPointsReceived, netClock, outScans, netHist,
                   lidarPackets, asmVars, elevVars>>

\* assembleLidarScans under the mutex, to its return; update() then calls
\* cleanupExpiredLidarStates
AssembleLocked ==
    /\ NetAt("main", "update", "locked")
    /\ roverState' = assembleLidarScans(roverState)
    /\ dataMutex' = NoOwner
    /\ NetGoto("main", "cleanup", "cleanupExpiredLidarStates")
    /\ UNCHANGED <<m_totalPointsReceived, netClock, outScans, netHist,
                   lidarPackets, asmVars, elevVars>>

\* cleanupExpiredLidarStates under the mutex, to the return of update()
CleanupLocked ==
    /\ NetAt("main", "cleanup", "locked")
    /\ roverState' = cleanupExpiredLidarStates(roverState, netClock)
    /\ dataMutex' = NoOwner
    /\ netPc' = [netPc EXCEPT !["main"] = NetIdle]
    /\ UNCHANGED <<m_totalPointsReceived, netClock, outScans, netHist,
                   lidarPackets, asmVars, elevVars>>

\* The main thread calls getLatestPose(1) or getLatestTelemetry(1) and
\* reaches the getter's lock_guard.
GetterCall(call) ==
    /\ netPc["main"] = NetIdle
    /\ NetGoto("main", call, "lock")
    /\ UNCHANGED <<roverState, m_totalPointsReceived, netClock, outScans, dataMutex,
                   netHist, lidarPackets, asmVars, elevVars>>

\* The getter under the mutex, to its return: getLatestPose reads
\* latestPose.timestamp, getLatestTelemetry takes an address.
GetterLocked(call) ==
    /\ NetAt("main", call, "locked")
    /\ dataMutex' = NoOwner
    /\ netPc' = [netPc EXCEPT !["main"] = NetIdle]
    /\ UNCHANGED <<roverState, m_totalPointsReceived, netClock, outScans, netHist,
                   lidarPackets, asmVars, elevVars>>

\* The three receive threads and the main thread, statement by statement.
NextRace ==
    \/ \E t \in NetThreads \ {"main"} :
          \/ ProcessLock(t)
          \/ ProcessBlock(t)
          \/ ProcessLastPacketTime(t)
          \/ StatsLock(t)
          \/ StatsWrite(t)
    \/ UpdateCall
    \/ UpdateReadLastPacketTime
    \/ MainLock("update", "assembleLidarScans")
    \/ AssembleLocked
    \/ MainLock("cleanup", "cleanupExpiredLidarStates")
    \/ CleanupLocked
    \/ \E call \in {"getLatestPose", "getLatestTelemetry"} :
          \/ GetterCall(call)
          \/ MainLock(call, "lock")
          \/ GetterLocked(call)
    \/ NetTick

SpecRace == Init /\ [][NextRace]_vars

\* The field of the rover's state that thread t reads or writes in its next
\* step, and whether it writes it; field "none" where the step touches no
\* field.
NextAccess(t) ==
    IF NetAt(t, "process", "block")
    THEN [field |-> IF t = "pose" THEN "latestPose"
                    ELSE IF t = "telem" THEN "latestTelem" ELSE "lidarAssembly",
          write |-> TRUE]
    ELSE IF NetAt(t, "process", "lastPacketTime")
    THEN [field |-> "lastPacketTime", write |-> TRUE]
    ELSE IF NetAt(t, "process", "stats") THEN [field |-> "stats", write |-> TRUE]
    ELSE IF NetAt(t, "update", "lastPacketTime")
    THEN [field |-> "lastPacketTime", write |-> FALSE]
    ELSE IF NetAt(t, "update", "locked") \/ NetAt(t, "cleanup", "locked")
    THEN [field |-> "lidarAssembly", write |-> TRUE]
    ELSE IF NetAt(t, "getLatestPose", "locked")
    THEN [field |-> "latestPose", write |-> FALSE]
    ELSE [field |-> "none", write |-> FALSE]

(* ------------------------- reading the history ------------------------ *)

\* The headers of the addChunk calls made for key k, in call order.
RECURSIVE HeadersIn(_)
HeadersIn(log) ==
    IF log = <<>> THEN <<>>
    ELSE IF Head(log).op = "chunk" THEN <<Head(log).hdr>> \o HeadersIn(Tail(log))
    ELSE HeadersIn(Tail(log))

ChunkHeaders(k) == HeadersIn(delivered[k])

\* Whether maintenance ever ran while k's partial had timed out.
TimedOut(k) == \E i \in 1..Len(delivered[k]) : delivered[k][i].op = "evict"

\* The scans emitted for key k, in emission order.
KeyOf(scan) == PartialKey(scan.roverId, scan.timestamp)
EmittedFor(k) == SelectSeq(emitted, LAMBDA sc : KeyOf(sc) = k)

\* The chunk indices in a list of headers.
IndicesOf(hs) == {hs[i].chunkIndex : i \in 1..Len(hs)}

\* Every header delivered for k is a well-formed header of a scan of T chunks:
\* it says totalChunks = T and has chunkIndex < T.
WellFormed(k, T) ==
    /\ T >= 1
    /\ \A i \in 1..Len(ChunkHeaders(k)) :
          /\ ChunkHeaders(k)[i].totalChunks = T
          /\ ChunkHeaders(k)[i].chunkIndex < T

\* Every call for k belongs to one well-formed scan of T chunks, and no
\* partial of k timed out.
OneScan(k, T) ==
    /\ WellFormed(k, T)
    /\ ~TimedOut(k)
    /\ ChunkHeaders(k) # <<>>

\* ... and each of its T chunks was delivered exactly once.
EachChunkOnce(k, T) ==
    /\ OneScan(k, T)
    /\ Len(ChunkHeaders(k)) = T
    /\ IndicesOf(ChunkHeaders(k)) = 0..(T - 1)

\* The bag (multiset) of the elements of a sequence.
BagOf(seq) ==
    [x \in {seq[i] : i \in 1..Len(seq)} |-> Cardinality({i \in 1..Len(seq) : seq[i] = x})]

RECURSIVE PointsOfAll(_)
\* The points of a list of chunks, chunk after chunk.
PointsOfAll(hs) ==
    IF hs = <<>> THEN <<>> ELSE PointsOf(Head(hs)) \o PointsOfAll(Tail(hs))

RECURSIVE FirstDeliveries(_, _)
\* The headers of hs whose chunkIndex was not seen earlier in hs (seen: the
\* indices already passed).
FirstDeliveries(hs, seen) ==
    IF hs = <<>> THEN <<>>
    ELSE IF Head(hs).chunkIndex \in seen THEN FirstDeliveries(Tail(hs), seen)
    ELSE <<Head(hs)>> \o FirstDeliveries(Tail(hs), seen \cup {Head(hs).chunkIndex})

(* ------------------------------- claims ------------------------------- *)

\* C1: chunk reassembly exactness.  When the T >= 1 chunks 0..T-1 of a key
\* have each been passed to addChunk exactly once, in any order, with no
\* eviction in between, exactly one CompletedScan has been emitted for the key
\* and its points are, as a multiset, the points of the T chunks.
C1_ReassemblyExact ==
    \A k \in Keys, T \in TotalChunksValues :
        EachChunkOnce(k, T) =>
            /\ Len(EmittedFor(k)) = 1
            /\ BagOf(EmittedFor(k)[1].points) = BagOf(PointsOfAll(ChunkHeaders(k)))

\* C1 witness: a two-chunk scan delivered as chunk 1, then chunk 0, and emitted.
C1_Witness ==
    \E k \in Keys :
        /\ EachChunkOnce(k, 2)
        /\ ChunkHeaders(k)[1].chunkIndex = 1
        /\ Len(EmittedFor(k)) = 1
        /\ Len(EmittedFor(k)[1].points) = 3

\* C2 (as claimed): duplicate resilience.  For a key all of whose chunks belong
\* to one scan of T chunks, duplicates included, at most one CompletedScan is
\* ever emitted, wherever in the sequence the duplicates arrive.
C2_AtMostOneScanDespiteDuplicates ==
    \A k \in Keys, T \in TotalChunksValues :
        OneScan(k, T) => Len(EmittedFor(k)) <= 1

\* C5: point order.  For a key whose chunks all belong to one scan (duplicates
\* allowed, no timeout), the first scan emitted holds the points of the
\* accepted chunks in the order addChunk accepted them (the order of their first
\* delivery, not of chunkIndex), each chunk's points in transmitted order.
C5_PointsInAcceptanceOrder ==
    \A k \in Keys, T \in TotalChunksValues :
        (OneScan(k, T) /\ EmittedFor(k) # <<>>) =>
            EmittedFor(k)[1].points = PointsOfAll(FirstDeliveries(ChunkHeaders(k), {}))

\* C5 witness: chunk 1 was accepted before chunk 0, and its two points lead.
C5_Witness ==
    \E k \in Keys :
        /\ OneScan(k, 2)
        /\ EmittedFor(k) # <<>>
        /\ ChunkHeaders(k)[1].chunkIndex = 1
        /\ EmittedFor(k)[1].points[1].chunk = 1
        /\ EmittedFor(k)[1].points[3].chunk = 0

\* C8 (as claimed): no CompletedScan is emitted for a key whose chunks carry
\* totalChunks = 0; every emitted scan comes from a partial with
\* totalChunks >= 1.
C8_NoScanFromZeroTotal ==
    \A k \in Keys :
        (\A i \in 1..Len(ChunkHeaders(k)) : ChunkHeaders(k)[i].totalChunks = 0)
            => EmittedFor(k) = <<>>

\* The step is an addChunk call for key k with header h.
IsAddChunk(k, h) == delivered'[k] = Append(delivered[k], [op |-> "chunk", hdr |-> h])

\* k has a partial that has outlived PARTIAL_TIMEOUT without completing.
Expired(k) ==
    k \in DOMAIN partials /\ clock - partials[k].firstArrivalTs > PartialTimeoutMs

\* C3 (as claimed): timeout eviction.  Once the partial of a key has outlived
\* PARTIAL_TIMEOUT incomplete, no CompletedScan is emitted for the key, neither
\* by chunks of the scan that arrive before the next maintenance call nor by
\* chunks that arrive after maintenance has discarded it.
C3_NoScanAfterTimeout ==
    [][\A k \in Keys, T \in TotalChunksValues :
          (WellFormed(k, T)' /\ (Expired(k) \/ TimedOut(k)))
              => EmittedFor(k)' = EmittedFor(k)]_vars

\* C4 (as claimed): mismatched totalChunks.  An addChunk whose header carries a
\* totalChunks other than that of the key's existing partial sets no bit,
\* appends no points and completes nothing.
C4_ConflictingTotalDropped ==
    [][\A k \in Keys, h \in LidarPacketHeader :
          (/\ k \in DOMAIN partials
           /\ IsAddChunk(k, h)
           /\ h.totalChunks # partials[k].totalChunks)
          => (partials' = partials /\ completed' = completed)]_vars

\* The last entry of a non-empty sequence.
Last(seq) == seq[Len(seq)]

\* The history of k is: chunks of one scan of T chunks that never completed,
\* one eviction, then only chunks of that scan that were missing before it.
OnlyMissingAfterEviction(k, T) ==
    \E e \in 1..Len(delivered[k]) :
        LET pre  == HeadersIn(SubSeq(delivered[k], 1, e - 1))
            post == HeadersIn(SubSeq(delivered[k], e + 1, Len(delivered[k])))
        IN  /\ delivered[k][e].op = "evict"
            /\ \A i \in 1..Len(delivered[k]) : delivered[k][i].op = "evict" => i = e
            /\ WellFormed(k, T)
            /\ IndicesOf(pre) # 0..(T - 1)
            /\ IndicesOf(post) \cap IndicesOf(pre) = {}

\* C6: post-eviction restart.  After maintenance has evicted the partial of a
\* key the key has no partial; the next addChunk for it starts a fresh one
\* (first arrival now, received all false but for the chunk's own bit, no
\* points but the chunk's own); and delivering only the chunks that were
\* missing before the eviction emits no CompletedScan.
C6_RestartAfterEviction ==
    /\ [](\A k \in Keys :
            /\ (delivered[k] # <<>> /\ Last(delivered[k]).op = "evict")
                  => k \notin DOMAIN partials
            /\ \A T \in TotalChunksValues :
                  OnlyMissingAfterEviction(k, T) => EmittedFor(k) = <<>>)
    /\ [][\A k \in Keys, h \in LidarPacketHeader :
            (/\ delivered[k] # <<>>
             /\ Last(delivered[k]).op = "evict"
             /\ IsAddChunk(k, h)
             /\ k \in DOMAIN partials')
            => /\ partials'[k].firstArrivalTs = clock
               /\ Len(partials'[k].received) = h.totalChunks
               /\ \A i \in 1..Len(partials'[k].received) :
                     partials'[k].received[i] => i = h.chunkIndex + 1
               /\ partials'[k].points \in {<<>>, PointsOf(h)}]_vars

\* C6 witness: chunk 0 of 2 arrived, the partial was evicted, then chunk 1 of 2
\* arrived and sits alone in a fresh partial.
C6_Witness ==
    \E k \in Keys :
        /\ OnlyMissingAfterEviction(k, 2)
        /\ Len(delivered[k]) = 3
        /\ delivered[k][2].op = "evict"
        /\ k \in DOMAIN partials
        /\ partials[k].received = <<FALSE, TRUE>>
        /\ partials[k].firstArrivalTs > 0

\* C7: an addChunk whose chunkIndex is out of the existing partial's range, or
\* whose bit is already set, changes neither the partial table (received set,
\* points, first arrival, presence of the key) nor the completed queue.
C7_DroppedChunkChangesNothing ==
    [][\A k \in Keys, h \in LidarPacketHeader :
          (/\ k \in DOMAIN partials
           /\ IsAddChunk(k, h)
           /\ IF h.chunkIndex >= partials[k].totalChunks
              THEN TRUE
              ELSE partials[k].received[h.chunkIndex + 1])
          => (partials' = partials /\ completed' = completed)]_vars

\* C7 witness: a chunk was delivered twice in a row and its partial is still
\* in the table, holding the chunk's points once.
C7_Witness ==
    \E k \in Keys :
        /\ k \in DOMAIN partials
        /\ Len(delivered[k]) = 2
        /\ delivered[k][1] = delivered[k][2]
        /\ delivered[k][1].op = "chunk"
        /\ partials[k].received = <<FALSE, TRUE>>
        /\ Len(partials[k].points) = 2

\* C9: retrieveCompleted hands over each completed scan exactly once and in
\* completion order.  The scans integrated so far followed by those still
\* queued are the scans emitted, in emission order; a retrieveCompleted call
\* returns the whole queue in order and leaves it empty.
C9_RetrievedOnceInOrder ==
    /\ [](integrated \o completed = emitted)
    /\ [][(framePc = "retrieve" /\ framePc' = "maintenance")
            => (completed' = <<>> /\ integrated' = integrated \o completed)]_vars

\* C9 witness: two scans, r2's completed before r1's, retrieved by different
\* calls and integrated in completion order.
C9_Witness ==
    /\ Len(integrated) = 2
    /\ integrated[1].roverId = "r2"
    /\ integrated[2].roverId = "r1"
    /\ completed = <<>>
    /\ emitted = integrated

\* Every received bit of p has its chunk's points in p.points (chunk i carries
\* i + 1 points) and no other chunk has any.
FullyUpdated(p) ==
    \A i \in 1..Len(p.received) :
        Cardinality({j \in 1..Len(p.points) : p.points[j].chunk = i - 1})
            = IF p.received[i] THEN i ELSE 0

\* C10: the assembler calls are atomic with respect to each other.  Under
\* every interleaving of the statements of addChunk (receiver threads) with
\* those of maintenance and retrieveCompleted (frame thread): at most one
\* thread is inside a call; when a call returns, the partial table, the
\* completed queue and the returned vector are what the whole call, run alone
\* from the state at its lock, gives; and whenever the mutex is free no scan is
\* lost or returned twice and no partial is half-updated or left complete.
C10_CallsAtomic ==
    /\ Cardinality({t \in Threads : pc[t] # "idle"}) <= 1
    /\ \A t \in Threads : pc[t] # "idle" => mutex = t
    /\ \A r \in Rovers :
          pc[r] = "unlock" =>
              LET res == AddChunkResult(atLock.partials, atLock.completed, local[r].t,
                                        r, local[r].hdr, PointsOf(local[r].hdr))
              IN  partials = res.partials /\ completed = res.completed
    /\ (pc[FrameThread] = "unlock" /\ framePc = "maintenance") =>
          /\ partials = DropStale(atLock.partials, local[FrameThread].t)
          /\ completed = atLock.completed
    /\ (pc[FrameThread] = "unlock" /\ framePc = "retrieve") =>
          /\ local[FrameThread].out = atLock.completed
          /\ completed = <<>>
          /\ partials = atLock.partials
    /\ mutex = NoOwner =>
          /\ integrated \o completed = emitted
          /\ \A k \in DOMAIN partials :
                FullyUpdated(partials[k]) /\ ~AllReceived(partials[k])

\* C10 witness: r1's receiver thread is inside addChunk with the bit of its
\* chunk set and the points not yet appended, r2's thread has completed a scan
\* before, and the frame thread stands before its next call.
C10_Witness ==
    /\ pc["r1"] = "points"
    /\ mutex = "r1"
    /\ ~FullyUpdated(partials[PartialKey("r1", local["r1"].hdr.timestamp)])
    /\ pc[FrameThread] = "idle"
    /\ framePc = "retrieve"
    /\ completed # <<>>
    /\ completed[1].roverId = "r2"

\* The partials a maintenance call at time now leaves, by the rule
\* "evict when now - first_arrival > PARTIAL_TIMEOUT".
KeptAt(ps, now) ==
    [k \in {k \in DOMAIN ps : ~(now - ps[k].firstArrivalTs > PartialTimeoutMs)} |-> ps[k]]

\* C11 (as claimed): maintenance(now) evicts exactly the partials with
\* now - first_arrival > 200 ms, now being the value the caller passes (the
\* frame loop passes 0.0); a partial of age 200 ms or less is kept, and the
\* completed scans awaiting retrieval stay.
C11_EvictsByCallerTime ==
    [][(framePc = "maintenance" /\ framePc' = "retrieve")
          => /\ partials' = KeptAt(partials, FrameNowSec)
             /\ completed' = completed]_vars

\* C12: lossy streams never block the pipeline.  With the frame loop running
\* and the clock advancing, a partial whose timeout lies within the run leaves
\* the partial table: its key is at some later time absent from the table
\* (the scan was promoted to a CompletedScan or maintenance evicted it).
C12_PartialEventuallyLeaves ==
    \A k \in Keys :
        (k \in DOMAIN partials
            /\ partials[k].firstArrivalTs + PartialTimeoutMs < MaxTicks * TickMs)
        ~> (k \notin DOMAIN partials)

\* C12 witness: an incomplete partial (chunk 0 of 2) that first arrived at
\* time 0 is still in the table when its timeout has passed.
C12_Witness ==
    \E k \in Keys :
        /\ k \in DOMAIN partials
        /\ partials[k].firstArrivalTs = 0
        /\ partials[k].received = <<TRUE, FALSE>>
        /\ clock - partials[k].firstArrivalTs > PartialTimeoutMs

(* ---------------------- claims: the elevation map --------------------- *)

\* The leaf cell that integratePoint(p, ...) works on in tile map ts (the
\* default cell if the point's tile or leaf does not exist yet).
CellAtPoint(ts, p) ==
    LET have == getOrCreateTile(ts, TileKeyOf(p))
        loc  == locateLeaf(have[TileKeyOf(p)], p.x, p.z)
    IN  NodeAt(loc.node, loc.path).cell

\* The tile of p after integrateScan(<<p>>, nowTs) on tile map ts.
TileAfterPoint(ts, p, nowTs) == integrateScan(ts, <<p>>, nowTs)[TileKeyOf(p)]

\* Whether the tile of p exists and is dirty.
TileDirty(ts, p) == TileKeyOf(p) \in DOMAIN ts /\ ts[TileKeyOf(p)].dirty

\* Points to try a call with: the cell of (1, 1), another cell of the same
\* tile, and a tile east of it, at heights from far below to far above.
ProbeHeights == {-100000, -700, -1, 0, 1, 60, 250, 1000, 100000}
ProbePoints == {[x |-> x, y |-> y, z |-> 1] : x \in {1, 20, 40}, y \in ProbeHeights}

\* C13: cell initialization.  In every state of the map, integrating a point
\* of any height y into a leaf cell that is not VALID gives the cell
\* z_mean = y, prev_z_mean = y, z_var = 0, n = 1, disagree_hits = 0 and the
\* flags VALID, DIRTY and CHANGED, and leaves the owning tile dirty.
C13_CellInitialization ==
    \A p \in ProbePoints, nowTs \in CellTimes :
        ~CellAtPoint(tiles, p).valid =>
            LET after == TileAfterPoint(tiles, p, nowTs)
                c     == CellAtPoint([k \in {TileKeyOf(p)} |-> after], p)
            IN  /\ c.z_mean = p.y /\ c.prev_z_mean = p.y /\ c.z_var = 0
                /\ c.n = 1 /\ c.disagreeHits = 0
                /\ {ELEV_VALID, ELEV_DIRTY, ELEV_CHANGED} \subseteq c.flags
                /\ c.valid
                /\ after.dirty

\* C13 witness: the first integrateScan call of the run, one point at 500 mm,
\* has initialised the cell of (1, 1) and left its tile dirty; the other
\* cells of the tile are still not VALID.
C13_Witness ==
    /\ nScans = 1
    /\ TileDirty(tiles, CellPoint(0))
    /\ CellAtPoint(tiles, CellPoint(0)).valid
    /\ CellAtPoint(tiles, CellPoint(0)).n = 1
    /\ CellAtPoint(tiles, CellPoint(0)).z_mean = 500
    /\ ~CellAtPoint(tiles, [x |-> 20, y |-> 0, z |-> 1]).valid

\* C14 (as claimed): DirtyQueue invariant.  Every integratePoint call that
\* changes the cell's z_mean by more than tau_upload, or initialises the cell,
\* or remaps it, leaves the owning tile's dirty flag set.  (SpecDrift makes
\* one integratePoint call per step, on the cell of (1, 1); a remap or an
\* initialisation shows as n going back to 1 or VALID appearing.)
C14_DirtyOnEveryBigMove ==
    [][LET c == CellAtPoint(tiles, CellPoint(0))
           d == CellAtPoint(tiles', CellPoint(0))
       IN  (\/ (c.valid /\ Abs(d.z_mean - c.z_mean) > TauUpload)
            \/ (~c.valid /\ d.valid)
            \/ (c.valid /\ c.n > 1 /\ d.n = 1))
           => TileDirty(tiles', CellPoint(0))]_vars

RECURSIVE TileRun(_, _)
\* The tile after each of a list of integratePoint calls, call by call
\* (calls: a sequence of [p, nowTs]).
TileRun(tile, cs) ==
    IF cs = <<>> THEN <<>>
    ELSE LET next == integratePoint(tile, Head(cs).p, Head(cs).nowTs)
         IN  <<next>> \o TileRun(next, Tail(cs))

\* The cell of (1, 1) in a tile.
CellOf(tile) == CellAtPoint([k \in {TileKeyOf(CellPoint(0))} |-> tile], CellPoint(0))

\* K calls on the cell of (1, 1), at heights and timestamps to choose.
KCalls == [1..K -> [p : CellPoints, nowTs : CellTimes]]

\* The timestamps of the calls lie inside one window.
InOneWindow(cs) ==
    \A i, j \in 1..Len(cs) : cs[i].nowTs - cs[j].nowTs <= DisagreeWindowMs

\* From tile `tile`, every call of cs disagrees with the mean the cell holds
\* when the call is made.
AllDisagree(tile, cs) ==
    \A i \in 1..Len(cs) :
        BranchOf(CellOf(IF i = 1 THEN tile ELSE TileRun(tile, cs)[i - 1]), cs[i].p.y)
            = "disagree"

\* From tile `tile`, the calls cs remap the cell at the last call and not
\* before: until then n and z_mean stay, and after it the cell holds the
\* last height with n = 1, disagree_hits = 0, CHANGED set and the tile dirty.
RemapsExactlyAtLast(tile, cs) ==
    LET run == TileRun(tile, cs)
        end == CellOf(run[Len(cs)])
    IN  /\ \A i \in 1..(Len(cs) - 1) :
              /\ CellOf(run[i]).n = CellOf(tile).n
              /\ CellOf(run[i]).z_mean = CellOf(tile).z_mean
        /\ end.z_mean = cs[Len(cs)].p.y
        /\ end.n = 1
        /\ end.disagreeHits = 0
        /\ ELEV_CHANGED \in end.flags
        /\ run[Len(cs)].dirty

\* The tile of (1, 1) holds a VALID cell there with n = N_sat.
Saturated ==
    /\ TileKeyOf(CellPoint(0)) \in DOMAIN tiles
    /\ CellAtPoint(tiles, CellPoint(0)).valid
    /\ CellAtPoint(tiles, CellPoint(0)).n = Nsat

\* C15 (as claimed): remap after K disagreements.  Starting from a VALID
\* cell with n = N_sat, K successive points that each disagree
\* (|y - z_mean| >= tau_replace), with timestamps inside one window, remap
\* the cell exactly at the K-th point.
C15_RemapAtKth ==
    Saturated =>
        \A cs \in KCalls :
            (InOneWindow(cs) /\ AllDisagree(tiles[TileKeyOf(CellPoint(0))], cs))
                => RemapsExactlyAtLast(tiles[TileKeyOf(CellPoint(0))], cs)

\* C15 (amended): the same, starting from a VALID cell with n = N_sat that
\* has no disagreement counted (disagree_hits = 0).
C15_RemapAtKthFromNoHits ==
    (Saturated /\ CellAtPoint(tiles, CellPoint(0)).disagreeHits = 0) =>
        \A cs \in KCalls :
            (InOneWindow(cs) /\ AllDisagree(tiles[TileKeyOf(CellPoint(0))], cs))
                => RemapsExactlyAtLast(tiles[TileKeyOf(CellPoint(0))], cs)

\* C15 witness: a saturated cell at 0 mm with no disagreement counted, in
\* a tile that has been exported and is not dirty: K disagreeing points from
\* here remap it at the K-th.
C15_Witness ==
    /\ Saturated
    /\ CellAtPoint(tiles, CellPoint(0)).z_mean = 0
    /\ CellAtPoint(tiles, CellPoint(0)).disagreeHits = 0
    /\ ~TileDirty(tiles, CellPoint(0))
    /\ RemapsExactlyAtLast(tiles[TileKeyOf(CellPoint(0))],
                           [i \in 1..K |-> [p |-> CellPoint(1000), nowTs |-> 600]])

\* The number of logged disagreements with timestamps in [from, from + window].
LoggedWithin(bag, from) ==
    Cardinality({e \in (DOMAIN bag) \X (1..K) :
                    /\ e[1] >= from /\ e[1] <= from + DisagreeWindowMs
                    /\ e[2] <= bag[e[1]]})

\* At least K of the logged disagreements lie inside one window.
KInOneWindow(bag) == \E from \in DOMAIN bag : LoggedWithin(bag, from) >= K

\* C16 (as claimed): no remap below K within the window.  A call remaps a
\* confident cell (n >= N_conf) only if, with the call's own point, at least
\* K disagreeing points have been integrated into the cell whose timestamps
\* all lie within one span of the window's length.
C16_NoRemapBelowKInWindow ==
    \A y \in CellHeights, nowTs \in CellTimes :
        LET c == CellAtPoint(tiles, CellPoint(y))
        IN  (/\ c.valid /\ c.n >= Nconf
             /\ BranchOf(c, y) = "disagree"
             /\ RemapDue(CountDisagreement(c, nowTs)))
            => KInOneWindow(Logged(LogOf(disagreeLog, CellIdOf(tiles, CellPoint(y))), nowTs))

\* C17: low-confidence remap.  A single disagreeing point remaps a VALID cell
\* with n < N_conf at once (z_mean = y, n = 1), whatever disagree_hits and the
\* timestamps are; it does not remap a cell with n >= N_conf and
\* disagree_hits = 0 (n and z_mean stay).
C17_LowConfidenceRemap ==
    \A y \in ProbeHeights, nowTs \in CellTimes :
        LET c == CellAtPoint(tiles, CellPoint(y))
            d == CellOf(TileAfterPoint(tiles, CellPoint(y), nowTs))
        IN  (c.valid /\ BranchOf(c, y) = "disagree") =>
                /\ c.n < Nconf => (d.z_mean = y /\ d.n = 1)
                /\ (c.n >= Nconf /\ c.disagreeHits = 0)
                      => (d.z_mean = c.z_mean /\ d.n = c.n)

\* C17 witness: a cell at 0 mm with fewer than N_conf samples, which one
\* point at 1000 mm remaps, in a tile that was exported and is not dirty.
C17_Witness ==
    /\ ~TileDirty(tiles, CellPoint(0))
    /\ CellAtPoint(tiles, CellPoint(0)).valid
    /\ CellAtPoint(tiles, CellPoint(0)).n = Nconf - 1
    /\ CellAtPoint(tiles, CellPoint(0)).z_mean = 0
    /\ CellOf(TileAfterPoint(tiles, CellPoint(1000), 1200)).n = 1
    /\ CellOf(TileAfterPoint(tiles, CellPoint(1000), 1200)).z_mean = 1000
    /\ TileAfterPoint(tiles, CellPoint(1000), 1200).dirty

\* Offsets from a cell's mean that lie in the agree zone.
AgreeOffsets == {-TauAccept, -100, -1, 0, 1, 100, TauAccept}

\* C18: agree-zone monotone confidence.  In every state, a point within
\* tau_accept of the mean of a VALID cell leaves n at min(n + 1, N_sat), never
\* lower than before, and disagree_hits at 0; n of a VALID cell is always in
\* 1..N_sat.
C18_AgreeZoneConfidence ==
    LET c == CellAtPoint(tiles, CellPoint(0))
    IN  c.valid =>
            /\ c.n >= 1 /\ c.n <= Nsat
            /\ \A off \in AgreeOffsets, nowTs \in CellTimes :
                  LET d == CellOf(TileAfterPoint(tiles, CellPoint(c.z_mean + off), nowTs))
                  IN  /\ d.n = Min(c.n + 1, Nsat)
                      /\ d.n >= c.n
                      /\ d.disagreeHits = 0

\* C18 witness: the cell has reached n = N_sat by agreeing points.
C18_Witness ==
    /\ Saturated
    /\ CellAtPoint(tiles, CellPoint(0)).disagreeHits = 0
    /\ CellAtPoint(tiles, CellPoint(0)).lastDisagreeTs = 0
    /\ CellAtPoint(tiles, CellPoint(0)).z_mean = 0

\* The mean of the cell of (1, 1) that the last export of its tile showed
\* (the set is empty if the tile was never exported or the cell was not VALID).
ExportedMeans ==
    IF TileKeyOf(CellPoint(0)) \in DOMAIN lastExport
    THEN {e[2] : e \in {e \in lastExport[TileKeyOf(CellPoint(0))] :
                          e[1] = locateLeaf(tiles[TileKeyOf(CellPoint(0))], 1, 1).path}}
    ELSE {}

\* C19 (as claimed): upload debouncing.  After an export has cleared the
\* tile's dirty flag, an integrate call that leaves the cell's z_mean within
\* tau_upload of the mean that export showed does not set the flag; and a call
\* that moves prev_z_mean (|z_mean - prev_z_mean| had passed tau_upload) sets it.
C19_UploadDebounced ==
    [][LET c == CellAtPoint(tiles, CellPoint(0))
           d == CellAtPoint(tiles', CellPoint(0))
       IN  /\ \A m \in ExportedMeans :
                 (~TileDirty(tiles, CellPoint(0)) /\ Abs(d.z_mean - m) <= TauUpload)
                     => ~TileDirty(tiles', CellPoint(0))
           /\ (c.valid /\ d.prev_z_mean # c.prev_z_mean)
                 => TileDirty(tiles', CellPoint(0))]_vars

\* The keys of a list of TileUpdates.
KeysOf(ups) == {ups[i].key : i \in 1..Len(ups)}

\* The dirty tiles of a tile map.
DirtyTiles(ts) == {k \in DOMAIN ts : ts[k].dirty}

\* C20: budget respect.  In every state of the map and for every byte budget
\* B, consumeDirtyTilesBudgeted(B) returns at most max(1, floor(B / (N*N*4)))
\* TileUpdates, each for a different tile that was dirty and is clean after
\* the call, and every dirty tile it did not return is still dirty.
C20_BudgetRespected ==
    \A maxBytes \in ByteBudgets :
        LET res == consumeDirtyTilesBudgeted(tiles, maxBytes)
        IN  /\ Len(res.updates)
                  <= Max(1, maxBytes \div (GridNVertices * GridNVertices * SizeofFloat))
            /\ Cardinality(KeysOf(res.updates)) = Len(res.updates)
            /\ KeysOf(res.updates) \subseteq DirtyTiles(tiles)
            /\ DirtyTiles(res.tiles) = DirtyTiles(tiles) \ KeysOf(res.updates)
            /\ DOMAIN res.tiles = DOMAIN tiles

\* C20 witness: a budgeted call returned two of four dirty tiles, and the
\* other two are still dirty.
C20_Witness ==
    /\ Len(updates) = 2
    /\ Cardinality(DOMAIN tiles) = 4
    /\ Cardinality(DirtyTiles(tiles)) = 2
    /\ KeysOf(updates) \cap DirtyTiles(tiles) = {}


\* The tiles the frame loop's points fall on.
FrameKeys == {TileKeyOf(pt) : pt \in FramePoints}

\* C21: with consumeDirtyTilesBudgeted called once per frame forever and
\* integration going on between the calls, every tile that is dirty is
\* eventually among the tiles a call returns.
C21_NoStarvation ==
    \A key \in FrameKeys :
        (key \in DOMAIN tiles /\ tiles[key].dirty) ~> (key \in KeysOf(updates))


\* The size of one tile's height data: N * N * sizeof(float) bytes.
PerTileBytes == GridNVertices * GridNVertices * SizeofFloat

\* The size of the height data of a list of TileUpdates.
BytesOf(ups) == Len(ups) * PerTileBytes

\* C22 as stated: per-frame byte cap.  In every state of the map and for
\* every byte budget B, also one smaller than a tile's size, the height data
\* that consumeDirtyTilesBudgeted(B) returns is at most B bytes.
C22_ByteCap ==
    \A maxBytes \in ByteBudgets :
        BytesOf(consumeDirtyTilesBudgeted(tiles, maxBytes).updates) <= maxBytes

\* C22, amended: the height data that consumeDirtyTilesBudgeted(B) returns
\* is at most B bytes, or one tile's size when B is smaller than that.
C22_ByteCapOrOneTile ==
    \A maxBytes \in ByteBudgets :
        BytesOf(consumeDirtyTilesBudgeted(tiles, maxBytes).updates)
            <= Max(maxBytes, PerTileBytes)

\* C22 witness: of three dirty tiles a budgeted call returned one, and the
\* other two are still dirty.
C22_Witness ==
    /\ Len(updates) = 1
    /\ Cardinality(DOMAIN tiles) = 3
    /\ Cardinality(DirtyTiles(tiles)) = 2
    /\ KeysOf(updates) \cap DirtyTiles(tiles) = {}


RECURSIVE Drain(_, _, _)
\* `rounds` successive consumeDirtyTilesBudgeted(maxBytes) calls from tile map
\* ts with no integration in between: the key sets the calls return, in call
\* order, and the tile map left.
Drain(ts, maxBytes, rounds) ==
    IF rounds = 0 THEN [tiles |-> ts, returned |-> <<>>]
    ELSE LET res  == consumeDirtyTilesBudgeted(ts, maxBytes)
             rest == Drain(res.tiles, maxBytes, rounds - 1)
         IN  [tiles |-> rest.tiles,
              returned |-> <<[keys |-> KeysOf(res.updates), count |-> Len(res.updates)]>>
                               \o rest.returned]

\* ceil(a / b) for a >= 0, b > 0
CeilDiv(a, b) == (a + b - 1) \div b

\* C23: budgeted drain.  From every state of the map with D dirty tiles and
\* for every byte budget B, ceil(D / max(1, floor(B / (N*N*4)))) successive
\* consumeDirtyTilesBudgeted(B) calls return pairwise disjoint sets of tiles,
\* every dirty tile exactly once, and leave no tile dirty.
C23_BudgetedDrain ==
    \A maxBytes \in ByteBudgets :
        LET D     == Cardinality(DirtyTiles(tiles))
            rounds == CeilDiv(D, Max(1, maxBytes \div PerTileBytes))
            run   == Drain(tiles, maxBytes, rounds)
        IN  /\ \A a, b \in 1..rounds :
                  a # b => run.returned[a].keys \cap run.returned[b].keys = {}
            /\ \A a \in 1..rounds :
                  Cardinality(run.returned[a].keys) = run.returned[a].count
            /\ UNION {run.returned[a].keys : a \in 1..rounds} = DirtyTiles(tiles)
            /\ DirtyTiles(run.tiles) = {}

\* C23 witness: four tiles were dirtied by two scans, and the last of them
\* was returned alone by the call that left no tile dirty.
C23_Witness ==
    /\ nScans = 2
    /\ Cardinality(DOMAIN tiles) = 4
    /\ DirtyTiles(tiles) = {}
    /\ Len(updates) = 1


\* C24: in every state of the map, consumeDirtyTiles returns one TileUpdate
\* for every dirty tile and for no other tile, each with a height grid of
\* N * N values; no tile is dirty after the call, and the same call made
\* again at once returns an empty list.
C24_ConsumeAllDirty ==
    LET res == consumeDirtyTiles(tiles)
    IN  /\ KeysOf(res.updates) = DirtyTiles(tiles)
        /\ Len(res.updates) = Cardinality(DirtyTiles(tiles))
        /\ \A u \in 1..Len(res.updates) :
              /\ Len(res.updates[u].heights) = GridNVertices * GridNVertices
              /\ res.updates[u].heights
                    = buildHeightGrid(tiles[res.updates[u].key], GridNVertices)
        /\ DOMAIN res.tiles = DOMAIN tiles
        /\ DirtyTiles(res.tiles) = {}
        /\ consumeDirtyTiles(res.tiles).updates = <<>>

\* C24 witness: a call returned all four tiles of the map at once and left
\* none of them dirty.
C24_Witness ==
    /\ Cardinality(DOMAIN tiles) = 4
    /\ KeysOf(updates) = DOMAIN tiles
    /\ DirtyTiles(tiles) = {}


\* Points on the tile (0, 0): in 8 m steps across its cells.
LeafProbes == {[x |-> x, y |-> 0, z |-> z] : x \in {1, 9, 20}, z \in {1, 9}}

\* The cell of p in the 2^D x 2^D grid of its tile, D the tile's maximum depth.
GridCellOf(p) ==
    LET cellSize == TileSize \div (2 ^ MaxDepth)
    IN  <<(p.x % TileSize) \div cellSize, (p.z % TileSize) \div cellSize>>

\* C25: leaf lookup depth.  Every cell that integratePoint has made valid
\* sits on a leaf at depth D, the tile's maximum depth, and on a tile of the
\* map locateLeaf returns a leaf at depth D, the same leaf for two points
\* only if they fall in the same cell of the tile's 2^D x 2^D grid.
C25_LeafAtMaxDepth ==
    /\ \A key \in DOMAIN tiles :
          \A leaf \in LeafMeans(tiles[key].root, <<>>) :
              Len(leaf[1]) = tiles[key].maxDepth
    /\ \A p \in LeafProbes :
          TileKeyOf(p) \in DOMAIN tiles =>
              LET loc == locateLeaf(tiles[TileKeyOf(p)], p.x, p.z)
              IN  /\ Len(loc.path) = tiles[TileKeyOf(p)].maxDepth
                  /\ NodeAt(loc.node, loc.path).isLeaf
    /\ \A p, q \in LeafProbes :
          (TileKeyOf(p) \in DOMAIN tiles /\ CellIdOf(tiles, p) = CellIdOf(tiles, q))
              => GridCellOf(p) = GridCellOf(q)


RECURSIVE SampledNode(_, _, _, _, _, _, _, _)
\* The node at which buildHeightGrid's walk toward (x, z) stops.
SampledNode(node, depth, maxDepth, cx, cz, half, x, z) ==
    IF depth < maxDepth - 1 /\ ~node.isLeaf
    THEN LET idx == childIndexFor(x, z, cx, cz)
             h2  == half \div 2
         IN  SampledNode(node.children[idx + 1], depth + 1, maxDepth,
                         IF idx = 1 \/ idx = 3 THEN cx + h2 ELSE cx - h2,
                         IF idx >= 2 THEN cz + h2 ELSE cz - h2,
                         h2, x, z)
    ELSE node

\* Vertex (i, j) of the tile's height grid is computed from observed data:
\* the walk toward it ends above at least one valid leaf.
VertexHasData(tile, i, j) ==
    LET step == tile.size \div (GridNVertices - 1)
        half == tile.size \div 2
    IN  LeafMeans(SampledNode(tile.root, 0, tile.maxDepth,
                              tile.originX + half, tile.originZ + half, half,
                              tile.originX + i * step, tile.originZ + j * step),
                  <<>>) # {}

\* Vertex (i, j) of a height grid of N x N vertices.
VertexOf(heights, i, j) == heights[j * GridNVertices + i + 1]

\* C26: height-grid edge coincidence.  For tiles (tx, tz) and (tx + 1, tz) of
\* the map and every row j, if both tiles have observed data under the shared
\* edge, vertex (N - 1, j) of the western tile's height grid equals vertex
\* (0, j) of the eastern tile's, both grids built from the same map state.
C26_EdgeCoincidence ==
    \A west \in DOMAIN tiles :
        LET east == TileKey(west[1] + 1, west[2])
        IN  east \in DOMAIN tiles =>
                \A j \in 0..(GridNVertices - 1) :
                    (/\ VertexHasData(tiles[west], GridNVertices - 1, j)
                     /\ VertexHasData(tiles[east], 0, j))
                        => VertexOf(buildHeightGrid(tiles[west], GridNVertices),
                                    GridNVertices - 1, j)
                               = VertexOf(buildHeightGrid(tiles[east], GridNVertices), 0, j)


\* Points around the origin and on tile boundaries.
TilingProbes ==
    {[x |-> x, y |-> 0, z |-> z] : x \in {-33, -32, -1, 0, 31, 32, 64}, z \in {-1, 0, 32}}

\* The half-open footprint of the tile with this key contains p.
InFootprint(key, p) ==
    /\ key[1] * TileSize <= p.x /\ p.x < (key[1] + 1) * TileSize
    /\ key[2] * TileSize <= p.z /\ p.z < (key[2] + 1) * TileSize

\* integrateScan(<<p>>, 0) from tile map ts routes p to the tile `key`: the
\* tile is created only if absent, it takes the point, and no other tile is
\* added, removed or changed.
RoutedTo(ts, p, key) ==
    LET after == integrateScan(ts, <<p>>, 0)
        fresh == Tile(key[1] * TileSize, key[2] * TileSize, TileSize, MaxDepth)
    IN  /\ DOMAIN after = DOMAIN ts \cup {key}
        /\ \A other \in DOMAIN ts \ {key} : after[other] = ts[other]
        /\ after[key] = integratePoint(IF key \in DOMAIN ts THEN ts[key] ELSE fresh, p, 0)
        /\ after[key].dirty \/ key \in DOMAIN ts

\* C27: tiling.  In every state of the map integrateScan routes a point to
\* the tile whose footprint contains it (also a point with negative
\* coordinates or on a tile boundary), creating the tile only if absent;
\* every tile of the map sits at its key's origin, and no step removes a tile.
C27_Tiling ==
    /\ [](/\ \A p \in TilingProbes :
                \E key \in DOMAIN integrateScan(tiles, <<p>>, 0) :
                    InFootprint(key, p) /\ RoutedTo(tiles, p, key)
          /\ \A key \in DOMAIN tiles :
                /\ tiles[key].originX = key[1] * TileSize
                /\ tiles[key].originZ = key[2] * TileSize
                /\ tiles[key].size = TileSize)
    /\ [][/\ DOMAIN tiles \subseteq DOMAIN tiles'
          /\ Cardinality(DOMAIN tiles') >= Cardinality(DOMAIN tiles)]_vars

\* C27 witness: the map holds the tile west of the origin and the tile that
\* starts on the boundary x = 32, each created by a point of a scan.
C27_Witness ==
    /\ nScans >= 1
    /\ {TileKey(-1, 0), TileKey(1, 0)} \subseteq DOMAIN tiles
    /\ CellAtPoint(tiles, [x |-> -1, y |-> 0, z |-> 1]).valid
    /\ CellAtPoint(tiles, [x |-> 32, y |-> 0, z |-> 1]).valid


\* The cell's z_mean is within tau_accept of the arithmetic mean of the
\* heights integrated: |z_mean - sum / count| <= tau_accept.
NearMean(c, log) ==
    Abs(c.z_mean * log.count - log.sum) <= TauAccept * log.count

FinitePointsOf(points) ==
    SelectSeq(points, LAMBDA p : ~IsNaN(p.x) /\ ~IsNaN(p.y) /\ ~IsNaN(p.z))

\* C29: non-finite input rejection.  An integrateScan call leaves the map as
\* the same call without the scan's non-finite points would: such a point
\* creates no tile, changes no cell and sets no dirty flag, and the other
\* points of the scan are integrated.
C29_NonFiniteSkipped ==
    [][\A points \in NonFiniteScans, nowTs \in NonFiniteTimes :
          (nScans' = nScans + 1 /\ tiles' = integrateScan(tiles, points, nowTs))
              => tiles' = integrateScan(tiles, FinitePointsOf(points), nowTs)]_vars



\* C32: an outlier that does not remap.  In every state of the cell, a point
\* at least tau_replace from the mean of a VALID cell with n >= N_conf, whose
\* count of disagreements stays below K, changes disagree_hits and
\* last_disagree_ts only: z_mean, prev_z_mean, z_var, n, the cell's flags, the
\* tile's dirty flag and the tile's height grid are as before.
C32_OutlierLeavesElevation ==
    \A y \in ProbeHeights, nowTs \in CellTimes :
        LET c     == CellAtPoint(tiles, CellPoint(y))
            after == TileAfterPoint(tiles, CellPoint(y), nowTs)
            d     == CellOf(after)
        IN  (/\ c.valid
             /\ Abs(y - c.z_mean) >= TauReplace
             /\ c.n >= Nconf
             /\ CountDisagreement(c, nowTs).disagreeHits < K) =>
                /\ d = [c EXCEPT !.disagreeHits = d.disagreeHits,
                                 !.lastDisagreeTs = d.lastDisagreeTs]
                /\ d.disagreeHits \in {1, c.disagreeHits + 1}
                /\ d.lastDisagreeTs = nowTs
                /\ after.dirty = tiles[TileKeyOf(CellPoint(y))].dirty
                /\ buildHeightGrid(after, GridNVertices)
                      = buildHeightGrid(tiles[TileKeyOf(CellPoint(y))], GridNVertices)

\* C32 witness: a cell with N_conf samples at 0 mm took one outlier after its
\* tile was exported: the disagreement is counted, the mean and the sample
\* count are as before and the tile is not dirty.
C32_Witness ==
    /\ ~TileDirty(tiles, CellPoint(0))
    /\ CellAtPoint(tiles, CellPoint(0)).valid
    /\ CellAtPoint(tiles, CellPoint(0)).n = Nconf
    /\ CellAtPoint(tiles, CellPoint(0)).z_mean = 0
    /\ CellAtPoint(tiles, CellPoint(0)).disagreeHits = 1
    /\ CellAtPoint(tiles, CellPoint(0)).lastDisagreeTs = 1200
    /\ updates # <<>>


RECURSIVE LeafCells(_)
\* The cells of the leaves below node.
LeafCells(node) ==
    IF node.isLeaf THEN {node.cell}
    ELSE UNION {LeafCells(node.children[i]) : i \in 1..4}

\* C33: the cell-level DIRTY flag tracks exports.  A tile whose dirty flag is
\* clear was returned by a consume call and took no point since that moved a
\* cell's mean beyond tau_upload, initialised a cell or remapped one (each of
\* these sets the tile's flag); no cell of such a tile has DIRTY set.
C33_CellDirtyClearedByExport ==
    \A key \in DOMAIN tiles :
        ~tiles[key].dirty =>
            \A c \in LeafCells(tiles[key].root) : ELEV_DIRTY \notin c.flags


RECURSIVE NodeCells(_)
\* The cells of every node below node, leaves and inner nodes alike.
NodeCells(node) ==
    IF node.isLeaf THEN {node.cell}
    ELSE {node.cell} \cup UNION {NodeCells(node.children[i]) : i \in 1..4}

\* The cells of every node of every tile of the map.
MapCells == UNION {NodeCells(tiles[key].root) : key \in DOMAIN tiles}

\* C34: the ElevCell invariant.  In every state of the map, every cell with
\* VALID set has 1 <= n <= Nsat and disagreeHits <= 255, the valid field of
\* every cell agrees with its VALID bit, and a cell without VALID has n = 0.
C34_ElevCellInvariant ==
    \A c \in MapCells :
        /\ c.valid <=> ELEV_VALID \in c.flags
        /\ ELEV_VALID \in c.flags =>
              /\ 1 <= c.n /\ c.n <= Nsat
              /\ c.disagreeHits <= MaxDisagreeHits
        /\ ELEV_VALID \notin c.flags => c.n = 0

\* C34's case: a cell whose count has saturated next to a cell no point has
\* reached, after a disagreeing point was counted against the first.
C34_Witness ==
    /\ \E c \in MapCells : c.valid /\ c.n = Nsat /\ c.disagreeHits > 0
    /\ \E c \in MapCells : ~c.valid


\* "|a - b| <= tau" as the floating-point comparison decides it: false when
\* either side is not a number.
WithinOf(a, b, tau) == ~IsNaN(a) /\ ~IsNaN(b) /\ Abs(a - b) <= tau

\* C36: the export staleness bound.  In every state of the map every VALID
\* cell has |z_mean - prev_z_mean| <= tau_upload.
C36_ExportStalenessBound ==
    \A c \in MapCells :
        ELEV_VALID \in c.flags => WithinOf(c.z_mean, c.prev_z_mean, TauUpload)


\* C37: the disagree window is insensitive to scan order.  In every state of
\* the map, a disagreeing point at nowTs on a confident cell with a run of
\* disagreements under way (0 < disagreeHits, disagreeHits + 1 < K, so the
\* point is counted and does not remap) leaves disagreeHits one higher when
\* nowTs is within the window of lastDisagreeTs in absolute terms, and
\* leaves it at 1 otherwise, also when nowTs is the earlier of the two.
C37_WindowInAbsoluteTerms ==
    \A y \in ProbeHeights, nowTs \in CellTimes :
        LET c == CellAtPoint(tiles, CellPoint(y))
            d == CellOf(TileAfterPoint(tiles, CellPoint(y), nowTs))
        IN  (/\ c.valid /\ Abs(y - c.z_mean) >= TauReplace /\ c.n >= Nconf
             /\ 0 < c.disagreeHits /\ c.disagreeHits + 1 < K) =>
                d.disagreeHits =
                    IF Abs(nowTs - c.lastDisagreeTs) <= DisagreeWindowMs
                    THEN c.disagreeHits + 1
                    ELSE 1


\* C38: the disagreement window used by integration is the configured one.
\* In every state of the map, with the window set to disagreeWindow by
\* setParameters, a disagreeing point at nowTs >= lastDisagreeTs on a
\* confident cell with a run of disagreements under way (0 < disagreeHits,
\* disagreeHits + 1 < K) joins the run (disagreeHits one higher) iff nowTs is
\* at most disagreeWindow after lastDisagreeTs, and starts a new run at 1
\* otherwise.
C38_ConfiguredWindowUsed ==
    \A y \in ProbeHeights, nowTs \in CellTimes :
        LET c == CellAtPoint(tiles, CellPoint(y))
            d == CellOf(TileAfterPoint(tiles, CellPoint(y), nowTs))
        IN  (/\ c.valid /\ Abs(y - c.z_mean) >= TauReplace /\ c.n >= Nconf
             /\ 0 < c.disagreeHits /\ c.disagreeHits + 1 < K
             /\ nowTs >= c.lastDisagreeTs) =>
                d.disagreeHits =
                    IF nowTs - c.lastDisagreeTs <= disagreeWindow
                    THEN c.disagreeHits + 1
                    ELSE 1

(* --------------------- claims: the network receiver ------------------- *)

\* C30: lidar datagram acceptance.  A datagram handed to processLidarPacket
\* has the length header-size + points_in_chunk * 12 for the points_in_chunk
\* of its own header, and declares at most MAX_LIDAR_POINTS_PER_PACKET points.
C30_LidarDatagramAcceptance ==
    \A i \in 1..Len(lidarPackets) :
        lidarPackets[i].processed =>
            /\ lidarPackets[i].datagram.bytes
                  = SizeofWireLidarPacketHeader
                        + lidarPackets[i].datagram.pointsInThisChunk * SizeofWireLidarPoint
            /\ lidarPackets[i].datagram.pointsInThisChunk <= MAX_LIDAR_POINTS_PER_PACKET


\* Whether a datagram received has the length of its message layout: the
\* packed pose or telemetry struct, or the lidar header and the points its
\* own header declares, at most MAX_LIDAR_POINTS_PER_PACKET of them.
MatchesLayout(last) ==
    IF last.kind = "pose" THEN last.datagram.bytes = SizeofWirePosePacket
    ELSE IF last.kind = "telem" THEN last.datagram.bytes = SizeofWireVehicleTelem
    ELSE /\ last.datagram.pointsInThisChunk <= MAX_LIDAR_POINTS_PER_PACKET
         /\ last.datagram.bytes
               = SizeofWireLidarPacketHeader
                    + last.datagram.pointsInThisChunk * SizeofWireLidarPoint

\* C31: malformed datagrams have no effect.  A step that receives a pose,
\* lidar or telemetry datagram whose length does not match its message
\* layout leaves the rover's state (latest pose and telemetry, last-packet
\* time, statistics, the scan assembly) and the point total as they were.
C31_MalformedHasNoEffect ==
    [][(/\ netHist'.received = netHist.received + 1
        /\ ~MatchesLayout(netHist'.lastDatagram)) =>
            /\ roverState' = roverState
            /\ m_totalPointsReceived' = m_totalPointsReceived]_vars


\* C35: scan completeness in the per-rover assembly.  Every scan that
\* getCompletedLidarScans has returned had every chunk index
\* 0..totalChunks-1 received; no chunk of index >= totalChunks counted
\* toward its completion.
C35_CompleteMeansAllChunks ==
    \A i \in 1..Len(netHist.returned) :
        \A index \in 0..(netHist.returned[i].totalChunks - 1) :
            index \in netHist.returned[i].chunkReceived

\* How often getCompletedLidarScans has returned a scan of timestamp ts.
TimesReturned(ts) ==
    Cardinality({i \in 1..Len(netHist.returned) : netHist.returned[i].timestamp = ts})

\* Whether a complete scan of timestamp ts waits in the assembly.
AwaitsReturn(ts) ==
    ts \in DOMAIN roverState.lidarAssembly /\ isComplete(roverState.lidarAssembly[ts])

\* C39: no completed scan is lost.  Under every interleaving of the receive
\* thread's processLidarPacket calls with the main thread's update() and
\* getCompletedLidarScans() calls, a scan that became complete before it
\* expired either still waits in the assembly or was written to the output
\* of a getCompletedLidarScans call: per timestamp, the completions are
\* accounted for by the scans returned and the one waiting.
C39_NoCompletedScanLost ==
    \A ts \in DOMAIN netHist.completions :
        netHist.completions[ts]
            <= TimesReturned(ts) + (IF AwaitsReturn(ts) THEN 1 ELSE 0)


\* The fields C40 is about.
SharedFields == {"lastPacketTime", "latestPose", "latestTelem"}

\* C40: the rover's shared state is accessed race-free.  Whenever a thread is
\* about to read or write lastPacketTime, latestPose or latestTelem it holds
\* dataMutex, and no two threads are about to access the same of these fields
\* with at least one of them writing.
C40_AccessUnderDataMutex ==
    /\ \A t \in NetThreads :
          NextAccess(t).field \in SharedFields => dataMutex = t
    /\ \A t, u \in NetThreads :
          (/\ t # u
           /\ NextAccess(t).field \in SharedFields
           /\ NextAccess(t).field = NextAccess(u).field) =>
              ~NextAccess(t).write /\ ~NextAccess(u).write

====
